---------------------------- MODULE Spec2Model ----------------------------
(***************************************************************************)
(* Model of helper/ES_analysis.py (class EsPriceAnalysis): the cumulative  *)
(* probability calculators __calc_cpf / __calc_cpf_time and the run()      *)
(* pipeline query_data -> __analyze_reversal -> __analyze_pivot_points ->  *)
(* __analyze_range -> __analyze_no_rebound -> __write_html over a table of *)
(* daily session records.  Each analysis method is the sequence of its     *)
(* assignments, run in order until one raises; run() catches nothing, so   *)
(* an exception ends the run with what had been assigned so far.           *)
(*                                                                         *)
(* Numbers.  Point values (ranges, deep-rebound distances) are held in     *)
(* ticks, TicksPerPoint ticks to the point, so that non-integer            *)
(* observations and the truncation int(...) are representable.  A Python   *)
(* float quotient a / b is held exactly as the fraction Frac(a, b); float  *)
(* rounding is not modelled.  Times of day are minutes since midnight.     *)
(*                                                                         *)
(* Specifications.  Spec is one run() of the program; SpecCpf is a direct  *)
(* call of a CPF calculator; SpecTwice is run() made twice on the same     *)
(* sheet; SpecAnyOrder calls the four analysis methods once each in any    *)
(* order after the load; SpecSheet is run() on a sheet that lacks a        *)
(* column; SpecPlain is run() on a sheet of regular sessions; SpecLevels   *)
(* is run() on sheets on which every stage has its sessions.               *)
(***************************************************************************)
EXTENDS Integers, Sequences, FiniteSets, TLC

VARIABLES
    pc,             \* position of run(): the next stage, or how the run ended
    error,          \* the exception that ended the run and the stage it left
    es_price_df,    \* self.__es_price_df: the loaded table, a sequence of rows
    attrs,          \* the other private fields of the object (counts, subsets)
    stats,          \* the statistics dictionaries of the object
    frame,          \* locals of the analysis method run last, as it left them
    report,         \* the report file ES_stats.html
    calls,          \* the methods run() has called so far, in order
    stdout,         \* the messages printed so far
    previous,       \* what an earlier run() of the program left (SpecTwice)
    cpf_call,       \* a pending direct call of a CPF calculator (SpecCpf)
    cpf_ret         \* what that call returned or raised

vars == <<pc, error, es_price_df, attrs, stats, frame, report, calls, stdout, previous,
          cpf_call, cpf_ret>>

run_vars == <<pc, error, es_price_df, attrs, stats, frame, report, calls, stdout, previous>>

-----------------------------------------------------------------------------
(* Bounds of the model *)

TicksPerPoint == 2
MaxRows == 6
MaxObs == 2
MaxObsTicks == 17
MaxEdge == 8
MaxSpan == 5
MaxPlainKinds == 6

-----------------------------------------------------------------------------
(* Values *)

\* a / b of two numbers, b # 0, kept exact
Frac(a, b) == [k |-> "frac", n |-> a, d |-> b]

FracEq(p, q) == p.n * q.d = q.n * p.d
FracLe(p, q) == p.n * q.d <= q.n * p.d

\* what a call does: return a value or raise
Return(v) == [exc |-> "none", val |-> v]
Raise(e) == [exc |-> e]

\* datetime.time(hour=h, minute=m)
Time(h, m) == 60 * h + m

\* list(range(start, stop, step)) for step > 0
RangeSeq(start, stop, step) ==
    LET n == IF stop > start THEN (stop - start + step - 1) \div step ELSE 0
    IN  [j \in 1..n |-> start + (j - 1) * step]

\* CountLe with the comparison exclusive
CountLt(data, x) == Cardinality({j \in DOMAIN data : data[j] < x})

\* CountLe counting the bin's own observations only (a histogram, not a cumulative count)
CountEq(data, x) == Cardinality({j \in DOMAIN data : data[j] = x})

\* sum(i <= x for i in data), x in the unit of the data
CountLe(data, x) == Cardinality({j \in DOMAIN data : data[j] <= x})

-----------------------------------------------------------------------------
(* The CPF calculators *)

\* x_cpf_time with 12:30 entered a second time in place of 13:00
x_cpf_time_typo ==
    << Time(9, 30), Time(10, 0), Time(10, 30), Time(11, 0), Time(11, 30),
       Time(12, 0), Time(12, 30), Time(12, 30), Time(13, 30), Time(14, 0),
       Time(14, 30), Time(15, 0) >>

x_cpf_time ==
    << Time(9, 30), Time(10, 0), Time(10, 30), Time(11, 0), Time(11, 30),
       Time(12, 0), Time(12, 30), Time(13, 0), Time(13, 30), Time(14, 0),
       Time(14, 30), Time(15, 0) >>

\* x_cpf with the range running up to and including bin_max
x_cpf_inclusive(bin_max, bin_span) ==
    RangeSeq(bin_span, bin_max + 1, bin_span) \o <<bin_max>>

\* x_cpf starting at the bin width whatever the max edge: the multiples of the
\* bin width up to the first one at or above bin_max
x_cpf_whole_bins(bin_max, bin_span) == RangeSeq(bin_span, bin_max + bin_span, bin_span)

\* x_cpf of __calc_cpf: the thresholds, in points
x_cpf(bin_max, bin_span) == RangeSeq(bin_span, bin_max, bin_span) \o <<bin_max>>

\* cpf_loop dividing by the number of thresholds instead of observations
cpf_loop_bins(data, xs, unit) ==
    IF Len(data) = 0
    THEN Raise("ZeroDivisionError")
    ELSE Return([cpf |-> [j \in DOMAIN xs |->
                            Frac(100 * CountLe(data, xs[j] * unit), Len(xs))],
                 x |-> xs])

\* the loop of the calculators: one division by n per threshold
cpf_loop(data, xs, unit) ==
    IF Len(data) = 0
    THEN Raise("ZeroDivisionError")
    ELSE Return([cpf |-> [j \in DOMAIN xs |->
                            Frac(100 * CountLe(data, xs[j] * unit), Len(data))],
                 x |-> xs])

\* __calc_cpf(data, bin_max, bin_span): data in ticks, thresholds in points
calc_cpf(data, bin_max, bin_span) ==
    cpf_loop(data, x_cpf(bin_max, bin_span), TicksPerPoint)

\* __calc_cpf_time(data): data and thresholds in minutes
calc_cpf_time(data) == cpf_loop(data, x_cpf_time, 1)

-----------------------------------------------------------------------------
(* Cells, rows and filtered tables *)

\* a nullable cell of the sheet: NaN, or Some(v)
NaN == <<>>
Some(v) == <<v>>
notnull(c) == c # NaN
isnull(c) == c = NaN

\* values stored in dictionaries, private fields and locals
IntV(n) == [int |-> n]
StrV(s) == [str |-> s, num |-> <<>>]
StrN(n, s) == [str |-> s, num |-> <<n>>]         \* str(n) + s
ListV(l) == [list |-> l]
NanV == [k |-> "nan"]

\* dictionary keys: prefix + str(number) + suffix; num is <<>> without a number
Key(s) == [pre |-> s, num |-> <<>>, suf |-> ""]
KeyN(pre, n, suf) == [pre |-> pre, num |-> n, suf |-> suf]

\* t.strftime('%H:%M'): the hour and the minute of a time of day
strftime_HM(t) == <<t \div 60, t % 60>>

\* a / b in Python: raises on b = 0
Div(a, b) == IF b = 0 THEN Raise("ZeroDivisionError") ELSE Return(Frac(a, b))

RECURSIVE SumSeq(_)
SumSeq(l) == IF l = <<>> THEN 0 ELSE Head(l) + SumSeq(Tail(l))

\* np.mean of point values held in ticks: nan (and a warning) on no values
np_mean(l) == IF l = <<>> THEN NanV ELSE Frac(SumSeq(l), Len(l) * TicksPerPoint)

MaxSeq(l) == CHOOSE m \in {l[i] : i \in DOMAIN l} : \A i \in DOMAIN l : l[i] <= m

\* int(max(l)) of point values held in ticks: max raises on an empty sequence
int_max(l) ==
    IF l = <<>> THEN Raise("ValueError") ELSE Return(MaxSeq(l) \div TicksPerPoint)

\* row i (0-based, as with iloc) of table df
iloc(df, i) == df[i + 1]

\* df.index.tolist() of the whole table
all_rows(df) == [j \in 1..Len(df) |-> j - 1]

\* the row labels of df (a RangeIndex)
Rows(df) == 0..(Len(df) - 1)

\* df[mask] that keeps every row of `rows`, whatever the mask
Filter_unmasked(df, rows, mask) == rows

\* df[mask] restricted to `rows` (an ascending list of row labels of df): mask
\* is the boolean Series that tells of each row label whether the row is kept
Filter(df, rows, mask) == SelectSeq(rows, LAMBDA i : mask[i])

\* the column `col` of the rows `rows`
Column(df, rows, col) == [j \in DOMAIN rows |-> iloc(df, rows[j])[col]]

\* the elements of a list
Range(l) == {l[j] : j \in DOMAIN l}

\* list.count(v)
count(l, v) == Cardinality({j \in DOMAIN l : l[j] = v})

\* the comprehension without its condition: [i for i in a]
not_in_unfiltered(a, b) == a

\* [i for i in a if i not in b]
not_in(a, b) == SelectSeq(a, LAMBDA i : \A j \in DOMAIN b : b[j] # i)

\* list(set(l)) for lists of row labels: the distinct labels, ascending
RECURSIVE SortedSeq(_)
SortedSeq(S) ==
    IF S = {} THEN <<>>
    ELSE LET m == CHOOSE x \in S : \A y \in S : x <= y
         IN  <<m>> \o SortedSeq(S \ {m})

list_set(l) == SortedSeq({l[j] : j \in DOMAIN l})

\* __calc_cpf_time on a column of nullable time cells: comparing a NaN cell
\* (a float) with a datetime.time raises TypeError
cpf_time_of(cells) ==
    IF cells = <<>> THEN calc_cpf_time(<<>>)
    ELSE IF \E j \in DOMAIN cells : isnull(cells[j]) THEN Raise("TypeError")
    ELSE calc_cpf_time([j \in DOMAIN cells |-> cells[j][1]])

-----------------------------------------------------------------------------
(* The object after __init__ *)

\* an insertion-ordered dict: a sequence of <<key, value>> pairs
EmptyDict == <<>>

has_key(d, k) == \E j \in DOMAIN d : d[j][1] = k

get(d, k) == d[CHOOSE j \in DOMAIN d : d[j][1] = k][2]

\* {"g1": {}, "g2": {}, ...}
Groups(S) == [g \in S |-> EmptyDict]

stats_init ==
    [ stats_reversal |->
        Groups({"General", "reversal day", "uptrend day", "downtrend day", "range day"}),
      stats_hour_reversal |-> Groups({"General", "Uptrend", "Downtrend", "Range"}),
      stats_pivot_points |->
        Groups({"General", "Days with demark", "Support", "Resistance", "Pivot"}),
      stats_deep_rebound |-> Groups({"General", "Support", "Resistance", "Pivot"}),
      stats_no_rebound |-> Groups({"Range", "ES PP", "Point"}),
      \* a flat dictionary, held as the one group "top"
      range_then_reversal |->
        [ top |-> << <<Key(" "), IntV(0)>>,
                     <<Key("% uptrend reversal"), IntV(0)>>,
                     <<Key("% downtrend reversal"), IntV(0)>>,
                     <<Key("avg. pt range no reversal"), IntV(0)>>,
                     <<Key("avg. pt range then uptrend"), IntV(0)>>,
                     <<Key("avg. pt range then downtrend"), IntV(0)>> >> ],
      stats_range_range |-> Groups({"Range", "Range ES<PP", "Range ES>PP"}),
      stats_range_uptrend |-> Groups({"Uptrend", "Uptrend ES<PP", "Uptrend ES>PP"}),
      stats_range_downtrend |-> Groups({"Downtrend", "Downtrend ES<PP", "Downtrend ES>PP"}),
      time_stats_no_rebound |-> Groups({"Support", "Resistance", "Pivot"}),
      body_stats_no_rebound |-> Groups({"Support", "Resistance", "Pivot"}) ]

\* the Python list [] a field holds until an analysis assigns it a DataFrame
\* (a subset of the table, held as ListV of its row labels)
PyList == [pylist |-> <<>>]

\* whether the value of a field is a DataFrame
is_dataframe(v) == "list" \in DOMAIN v

attrs_init ==
    [ num_days |-> IntV(0),
      es_uptrend_df |-> PyList, num_days_uptrend |-> IntV(0),
      es_downtrend_df |-> PyList, num_days_downtrend |-> IntV(0),
      es_range_df |-> PyList, num_days_range |-> IntV(0),
      es_uptrend_then_reversal_df |-> PyList,
      es_downtrend_then_reversal_df |-> PyList,
      es_range_then_reversal_df |-> PyList,
      pct_uptrend_then_reversal |-> IntV(0),
      pct_downtrend_then_reversal |-> IntV(0),
      pct_range_then_reversal |-> IntV(0),
      es_price_with_reversal_df |-> PyList,
      es_higher_pp_start |-> PyList, num_days_es_higher_pp_start |-> IntV(0),
      es_lower_pp_start |-> PyList, num_days_es_lower_pp_start |-> IntV(0),
      es_higher_pp_start_then_reversal_df |-> PyList,
      es_lower_pp_start_then_reversal_df |-> PyList,
      pct_es_higher_pp_start_then_reversal |-> IntV(0),
      pct_es_lower_pp_start_then_reversal |-> IntV(0) ]

NoError == [exc |-> "none"]
NoCall == [fn |-> "none"]
Pending == [exc |-> "pending"]
NoFrame == [method |-> "none", locals |-> <<>>]
\* the report file before the run: not written by this run
NoReport == [opened |-> FALSE, written |-> <<>>]
\* no earlier run of the program
NoRun == [ran |-> FALSE]

-----------------------------------------------------------------------------
(* Statements of a method, run in order until one raises *)

\* self.<dict>[group][key] = value
Put(d, g, key, res) == [to |-> "stats", d |-> d, g |-> g, key |-> key, res |-> res]
\* self.<name> = value
Attr(name, res) == [to |-> "attr", d |-> name, g |-> "", key |-> Key(name), res |-> res]
\* name = value (a local)
Local(name, res) == [to |-> "local", d |-> "", g |-> "", key |-> Key(name), res |-> res]

\* the statements that run: those before the first one that raises
FirstRaise(sts) ==
    IF \E i \in DOMAIN sts : sts[i].res.exc # "none"
    THEN CHOOSE i \in DOMAIN sts :
            /\ sts[i].res.exc # "none"
            /\ \A j \in 1..(i - 1) : sts[j].res.exc = "none"
    ELSE Len(sts) + 1

\* a dictionary that grows with every assignment: an assigned key is appended
\* again instead of taking the new value in its place
assign_all_append(d, as) == d \o [m \in DOMAIN as |-> <<as[m].key, as[m].res.val>>]

\* dictionary d after the assignments as (statements on d, in order): an
\* assigned key keeps its place and takes the last value assigned; a new key
\* is appended when first assigned
assign_all(d, as) ==
    LET last(k) == as[CHOOSE i \in DOMAIN as :
                        as[i].key = k /\ \A j \in DOMAIN as : as[j].key = k => j <= i].res.val
        assigned(k) == \E i \in DOMAIN as : as[i].key = k
        fresh == SelectSeq([i \in DOMAIN as |-> i],
                           LAMBDA i : /\ ~has_key(d, as[i].key)
                                      /\ \A j \in 1..(i - 1) : as[j].key # as[i].key)
    IN  [j \in DOMAIN d |-> IF assigned(d[j][1]) THEN <<d[j][1], last(d[j][1])>> ELSE d[j]]
        \o [m \in DOMAIN fresh |-> <<as[fresh[m]].key, last(as[fresh[m]].key)>>]

\* running the statements sts on the object (a, s): the object and the locals
\* as the method leaves them, and the exception it raises, if any
RunStatements(a, s, sts) ==
    LET n == FirstRaise(sts)
        ran == SubSeq(sts, 1, n - 1)
        on(to, d, g) == SelectSeq(ran, LAMBDA st : st.to = to /\ st.d = d /\ st.g = g)
    IN  [ attrs |-> [name \in DOMAIN a |->
                        LET as == on("attr", name, "")
                        IN  IF as = <<>> THEN a[name] ELSE as[Len(as)].res.val],
          stats |-> [d \in DOMAIN s |-> [g \in DOMAIN s[d] |->
                        assign_all(s[d][g], on("stats", d, g))]],
          locals |-> assign_all(<<>>, on("local", "", "")),
          exc |-> IF n > Len(sts) THEN "none" ELSE sts[n].res.exc ]

\* the key of threshold x in a row of a CPF table:
\* "% " + t.strftime('%H:%M'), "% " + str(p) + "pt", or str(int(x))
cpf_key(style, x) ==
    CASE style = "time" -> KeyN("% ", strftime_HM(x), "")
      [] style = "pt" -> KeyN("% ", <<x>>, "pt")
      [] style = "int" -> KeyN("", <<x>>, "")

\* for i, x in enumerate(cpf["x"]): self.<d>[g][key(x)] = cpf["cpf"][i]
\* (nothing when the call that made cpf raised: the loop is not reached)
PutCpf(d, g, cpf, style) ==
    IF cpf.exc # "none" THEN <<>>
    ELSE [j \in DOMAIN cpf.val.x |->
            Put(d, g, cpf_key(style, cpf.val.x[j]), Return(cpf.val.cpf[j]))]

-----------------------------------------------------------------------------
(* __analyze_reversal *)

\* (df['ES & PP'] == 1) | (df['ES & PP'] == -1), of a row
es_higher_pp(r) == r.es_pp = 1 \/ r.es_pp = -1

\* a lower bucket that leaves out the code 2
es_lower_pp_zero(r) == r.es_pp = 0

\* (df['ES & PP'] == 0) | (df['ES & PP'] == 2), of a row
es_lower_pp(r) == r.es_pp = 0 \/ r.es_pp = 2

\* every day of the table, with a reversal or not
es_price_all_days(df) == all_rows(df)

\* self.__es_price_df[self.__es_price_df['Hour trend change'].notnull()]
es_price_with_reversal(df) ==
    Filter(df, all_rows(df), [i \in Rows(df) |-> notnull(iloc(df, i).hour_trend_change)])

\* __analyze_general_reversal
general_reversal_statements(df, a) ==
    LET with_reversal == es_price_with_reversal(df)
    IN  << Attr("es_price_with_reversal_df", Return(ListV(with_reversal))),
           Put("stats_reversal", "General", Key("count days with reversal"),
               Return(IntV(Len(with_reversal)))),
           Put("stats_reversal", "General", Key("pct with reversal"),
               Div(100 * Len(with_reversal), a.num_days.int)) >>

\* the block of __analyze_reversal_each_trend for uptrend days and the one for
\* downtrend days: the same statements on the trend's own subsets
trend_day_statements(df, trend_df, then_reversal_df, group, suffix, cpf_name, hour_group, label) ==
    LET count_days == Len(trend_df)
        no_reversal == Column(df, Filter(df, trend_df, [i \in Rows(df) |-> LET r == iloc(df, i) IN isnull(r.new_trend)]), "max_range")
        with_reversal == Column(df, Filter(df, trend_df, [i \in Rows(df) |-> LET r == iloc(df, i) IN notnull(r.new_trend)]), "max_range")
        higher == Filter(df, then_reversal_df, [i \in Rows(df) |-> LET r == iloc(df, i) IN es_higher_pp(r)])
        lower == Filter(df, then_reversal_df, [i \in Rows(df) |-> LET r == iloc(df, i) IN es_lower_pp(r)])
        hours == Column(df, Filter(df, trend_df, [i \in Rows(df) |-> LET r == iloc(df, i) IN notnull(r.new_trend)]), "hour_trend_change")
        cpf == cpf_time_of(hours)
    IN  << Put("stats_reversal", group, Key(" "), Return(StrN(count_days, suffix))),
           Put("stats_reversal", group, Key("% with reversal*"),
               Div(100 * Len(then_reversal_df), count_days)),
           Local(label \o "_then_reversal_es_higher_pp", Return(ListV(higher))),
           Local(label \o "_then_reversal_es_lower_pp", Return(ListV(lower))),
           Put("stats_reversal", group, Key("% reversal when ES<PP at 8:30am**"),
               Div(100 * Len(lower), Len(then_reversal_df))),
           Put("stats_reversal", group, Key("% reversal when ES>PP at 8:30am**"),
               Div(100 * Len(higher), Len(then_reversal_df))),
           Put("stats_reversal", group, Key("avg. range when no reversal [pt]"),
               Return(np_mean(no_reversal))),
           Put("stats_reversal", group, Key("avg. range when reversal [pt]"),
               Return(np_mean(with_reversal))),
           Local(cpf_name, cpf),
           Put("stats_hour_reversal", hour_group, Key(" "), Return(StrV(label))) >>
        \o PutCpf("stats_hour_reversal", hour_group, cpf, "time")

\* the block of __analyze_reversal_each_trend for range days
range_day_statements(df, es_range_df, es_range_then_reversal_df, es_downtrend_then_reversal_df) ==
    LET count_range_days == Len(es_range_df)
        no_reversal == Column(df, Filter(df, es_range_df, [i \in Rows(df) |-> LET r == iloc(df, i) IN isnull(r.new_trend)]), "max_range")
        with_reversal == Column(df, Filter(df, es_range_df, [i \in Rows(df) |-> LET r == iloc(df, i) IN notnull(r.new_trend)]), "max_range")
        count_range_with_reversal == Len(with_reversal)
        then_uptrend == Filter(df, es_range_df, [i \in Rows(df) |-> LET r == iloc(df, i) IN r.new_trend = Some(1)])
        then_downtrend == Filter(df, es_range_df, [i \in Rows(df) |-> LET r == iloc(df, i) IN r.new_trend = Some(-1)])
        higher == Filter(df, es_range_then_reversal_df, [i \in Rows(df) |-> LET r == iloc(df, i) IN es_higher_pp(r)])
        lower == Filter(df, es_range_then_reversal_df, [i \in Rows(df) |-> LET r == iloc(df, i) IN es_lower_pp(r)])
        hours == Column(df, Filter(df, es_range_df, [i \in Rows(df) |-> LET r == iloc(df, i) IN notnull(r.new_trend)]), "hour_trend_change")
        cpf == cpf_time_of(hours)
    IN  << Put("range_then_reversal", "top", Key(" "),
               Return(StrN(count_range_with_reversal, " range with reversal days"))),
           Put("range_then_reversal", "top", Key("% uptrend reversal"),
               Div(100 * Len(then_uptrend), count_range_with_reversal)),
           Put("range_then_reversal", "top", Key("% downtrend reversal"),
               Div(100 * Len(then_downtrend), count_range_with_reversal)),
           Put("range_then_reversal", "top", Key("avg. pt range no reversal"),
               Return(np_mean(no_reversal))),
           Put("range_then_reversal", "top", Key("avg. pt range then uptrend"),
               Return(np_mean(Column(df, then_uptrend, "max_range")))),
           Put("range_then_reversal", "top", Key("avg. pt range then downtrend"),
               Return(np_mean(Column(df, then_downtrend, "max_range")))),
           Put("stats_reversal", "range day", Key(" "), Return(StrN(count_range_days, " range days"))),
           Put("stats_reversal", "range day", Key("% with reversal*"),
               Div(100 * Len(es_range_then_reversal_df), count_range_days)),
           Local("range_then_reversal_es_higher_pp", Return(ListV(higher))),
           Local("range_then_reversal_es_lower_pp", Return(ListV(lower))),
           Put("stats_reversal", "range day", Key("% reversal when ES<PP at 8:30am**"),
               Div(100 * Len(lower), Len(es_downtrend_then_reversal_df))),
           Put("stats_reversal", "range day", Key("% reversal when ES>PP at 8:30am**"),
               Div(100 * Len(higher), Len(es_range_then_reversal_df))),
           Put("stats_reversal", "range day", Key("avg. range when no reversal [pt]"),
               Return(np_mean(no_reversal))),
           Put("stats_reversal", "range day", Key("avg. range when reversal [pt]"),
               Return(np_mean(with_reversal))),
           Local("cpf_hour_reversal_range", cpf),
           Put("stats_hour_reversal", "Range", Key(" "), Return(StrV("range"))) >>
        \o PutCpf("stats_hour_reversal", "Range", cpf, "time")

\* __analyze_reversal_each_trend
reversal_each_trend_statements(df, count_days_with_reversal) ==
    LET es_uptrend_df == Filter(df, all_rows(df), [i \in Rows(df) |-> LET r == iloc(df, i) IN r.trend = 1])
        es_downtrend_df == Filter(df, all_rows(df), [i \in Rows(df) |-> LET r == iloc(df, i) IN r.trend = -1])
        es_range_df == Filter(df, all_rows(df), [i \in Rows(df) |-> LET r == iloc(df, i) IN r.trend = 0])
        hour_reversal == Column(df, Filter(df, all_rows(df), [i \in Rows(df) |-> LET r == iloc(df, i) IN notnull(r.new_trend)]),
                                "hour_trend_change")
        cpf_hour_reversal == cpf_time_of(hour_reversal)
        up_rev == Filter(df, es_uptrend_df, [i \in Rows(df) |-> LET r == iloc(df, i) IN notnull(r.hour_trend_change)])
        up_then_down == Filter(df, up_rev, [i \in Rows(df) |-> LET r == iloc(df, i) IN r.new_trend = Some(-1)])
        down_rev == Filter(df, es_downtrend_df, [i \in Rows(df) |-> LET r == iloc(df, i) IN notnull(r.hour_trend_change)])
        down_then_up == Filter(df, down_rev, [i \in Rows(df) |-> LET r == iloc(df, i) IN r.new_trend = Some(1)])
        range_rev == Filter(df, es_range_df, [i \in Rows(df) |-> LET r == iloc(df, i) IN notnull(r.hour_trend_change)])
        range_then_up == Filter(df, range_rev, [i \in Rows(df) |-> LET r == iloc(df, i) IN r.new_trend = Some(1)])
        range_then_down == Filter(df, range_rev, [i \in Rows(df) |-> LET r == iloc(df, i) IN r.new_trend = Some(-1)])
    IN  << Attr("es_uptrend_df", Return(ListV(es_uptrend_df))),
           Attr("num_days_uptrend", Return(IntV(Len(es_uptrend_df)))),
           Attr("es_downtrend_df", Return(ListV(es_downtrend_df))),
           Attr("num_days_downtrend", Return(IntV(Len(es_downtrend_df)))),
           Attr("es_range_df", Return(ListV(es_range_df))),
           Attr("num_days_range", Return(IntV(Len(es_range_df)))),
           Local("cpf_hour_reversal", cpf_hour_reversal),
           Put("stats_hour_reversal", "General", Key(" "), Return(StrV("any"))) >>
        \o PutCpf("stats_hour_reversal", "General", cpf_hour_reversal, "time")
        \o
        << Attr("es_uptrend_then_reversal_df", Return(ListV(up_rev))),
           Attr("es_downtrend_then_reversal_df", Return(ListV(down_rev))),
           Attr("es_range_then_reversal_df", Return(ListV(range_rev))),
           Attr("pct_uptrend_then_reversal", Div(100 * Len(up_rev), Len(es_uptrend_df))),
           Attr("pct_downtrend_then_reversal", Div(100 * Len(down_rev), Len(es_downtrend_df))),
           Attr("pct_range_then_reversal", Div(100 * Len(range_rev), Len(es_range_df))),
           Put("stats_reversal", "reversal day", Key(" "),
               Return(StrN(count_days_with_reversal, " days with reversal"))),
           Put("stats_reversal", "reversal day", Key("% down then up"),
               Div(100 * Len(down_then_up), count_days_with_reversal)),
           Put("stats_reversal", "reversal day", Key("% up then down"),
               Div(100 * Len(up_then_down), count_days_with_reversal)),
           Put("stats_reversal", "reversal day", Key("% range then up"),
               Div(100 * Len(range_then_up), count_days_with_reversal)),
           Put("stats_reversal", "reversal day", Key("% range then down"),
               Div(100 * Len(range_then_down), count_days_with_reversal)) >>
        \o trend_day_statements(df, es_uptrend_df, up_rev, "uptrend day", " uptrend days",
                                "cpf_hour_reversal_uptrend", "Uptrend", "uptrend")
        \o trend_day_statements(df, es_downtrend_df, down_rev, "downtrend day",
                                " downtrend days", "cpf_hour_reversal_downtrend",
                                "Downtrend", "downtrend")
        \o range_day_statements(df, es_range_df, range_rev, down_rev)

\* __analyze_reversal_es_start_pivot
reversal_es_start_pivot_statements(df) ==
    LET higher == Filter(df, all_rows(df), [i \in Rows(df) |-> LET r == iloc(df, i) IN es_higher_pp(r)])
        lower == Filter(df, all_rows(df), [i \in Rows(df) |-> LET r == iloc(df, i) IN es_lower_pp(r)])
        higher_rev == Filter(df, higher, [i \in Rows(df) |-> LET r == iloc(df, i) IN notnull(r.hour_trend_change)])
        lower_rev == Filter(df, lower, [i \in Rows(df) |-> LET r == iloc(df, i) IN notnull(r.hour_trend_change)])
    IN  << Attr("es_higher_pp_start", Return(ListV(higher))),
           Attr("num_days_es_higher_pp_start", Return(IntV(Len(higher)))),
           Attr("es_lower_pp_start", Return(ListV(lower))),
           Attr("num_days_es_lower_pp_start", Return(IntV(Len(lower)))),
           Attr("es_higher_pp_start_then_reversal_df", Return(ListV(higher_rev))),
           Attr("es_lower_pp_start_then_reversal_df", Return(ListV(lower_rev))),
           Attr("pct_es_higher_pp_start_then_reversal", Div(100 * Len(higher_rev), Len(higher))),
           Attr("pct_es_lower_pp_start_then_reversal", Div(100 * Len(lower_rev), Len(lower))) >>

\* __analyze_reversal: the three methods in order
analyze_reversal_statements(df, a) ==
    general_reversal_statements(df, a)
    \o reversal_each_trend_statements(df, Len(es_price_with_reversal(df)))
    \o reversal_es_start_pivot_statements(df)

-----------------------------------------------------------------------------
(* __analyze_pivot_points *)

\* rows_no_rebound with the deep rebounds left in
rows_no_rebound_all(rows_no_perfect_rebound, rows_deep_rebound) == rows_no_perfect_rebound

\* rows_no_rebound = [i for i in rows_no_perfect_rebound if i not in rows_deep_rebound]
rows_no_rebound(rows_no_perfect_rebound, rows_deep_rebound) ==
    not_in(rows_no_perfect_rebound, rows_deep_rebound)

\* __count_point with the deep and failed lists exchanged
count_point_swapped(point, list_perfect_rebound, list_deep_rebound, list_no_rebound) ==
    << count(list_perfect_rebound, Some(point)), count(list_no_rebound, Some(point)),
       count(list_deep_rebound, Some(point)) >>

\* __count_point
count_point(point, list_perfect_rebound, list_deep_rebound, list_no_rebound) ==
    << count(list_perfect_rebound, Some(point)), count(list_deep_rebound, Some(point)),
       count(list_no_rebound, Some(point)) >>

\* the per-level block of __analyze_pivot_points (Pivot, Support, Resistance)
level_statements(group, word, names, c, general, pt_deep_rebound_level) ==
    LET total == c[1] + c[2] + c[3]
    IN  << Local(names[1], Return(IntV(c[1]))),
           Local(names[2], Return(IntV(c[2]))),
           Local(names[3], Return(IntV(c[3]))),
           Local(names[4], Return(IntV(total))),
           Put("stats_pivot_points", group, Key("pct " \o word \o " perfect rebound"),
               Div(100 * c[1], general.perfect)),
           Put("stats_pivot_points", group, Key("pct " \o word \o " deep rebound"),
               Div(100 * c[2], general.deep)),
           Put("stats_pivot_points", group, Key("pct " \o word \o " rebound"),
               Div(100 * (c[1] + c[2]), general.rebound)),
           Put("stats_pivot_points", group, Key("pct " \o word \o " no rebound"),
               Div(100 * c[3], general.no_rebound)),
           Put("stats_pivot_points", group, Key("pct point"), Div(100 * total, general.points)),
           Put("stats_pivot_points", group, Key("pct perfect rebound"), Div(100 * c[1], total)),
           Put("stats_pivot_points", group, Key("pct deep rebound"), Div(100 * c[2], total)),
           Put("stats_pivot_points", group, Key("pct rebound"), Div(100 * (c[1] + c[2]), total)),
           Put("stats_pivot_points", group, Key("pct no rebound"), Div(100 * c[3], total)),
           Put("stats_pivot_points", group, Key("pt deep rebound"),
               Return(ListV(pt_deep_rebound_level))) >>

\* the block with the thresholds of a row running up to the largest distance
\* of that row's own level
deep_rebound_statements_own_max(group, label, cdf_name, pt_level, pt_deep_rebound, share) ==
    LET bin_max == int_max(pt_level)
        cdf == IF bin_max.exc # "none" THEN bin_max ELSE calc_cpf(pt_level, bin_max.val, 2)
    IN  << Local(cdf_name, cdf),
           Put("stats_deep_rebound", group, Key(" "), Return(StrV(label))),
           Put("stats_deep_rebound", group, Key("% of deep rebounds"), share),
           Put("stats_deep_rebound", group, Key("mean"), Return(np_mean(pt_level))) >>
        \o PutCpf("stats_deep_rebound", group, cdf, "int")

\* the deep-rebound distance block of one row of stats_deep_rebound
deep_rebound_statements(group, label, cdf_name, pt_level, pt_deep_rebound, share) ==
    LET bin_max == int_max(pt_deep_rebound)
        cdf == IF bin_max.exc # "none" THEN bin_max ELSE calc_cpf(pt_level, bin_max.val, 2)
    IN  << Local(cdf_name, cdf),
           Put("stats_deep_rebound", group, Key(" "), Return(StrV(label))),
           Put("stats_deep_rebound", group, Key("% of deep rebounds"), share),
           Put("stats_deep_rebound", group, Key("mean"), Return(np_mean(pt_level))) >>
        \o PutCpf("stats_deep_rebound", group, cdf, "int")

analyze_pivot_points_statements(df) ==
    LET rows_first_rebound == Filter(df, all_rows(df), [i \in Rows(df) |-> LET r == iloc(df, i) IN notnull(r.first_rebound)])
        rows_second_rebound == Filter(df, all_rows(df), [i \in Rows(df) |-> LET r == iloc(df, i) IN notnull(r.second_rebound)])
        rows_perfect_rebound == rows_first_rebound \o rows_second_rebound
        rows_deep_rebound == Filter(df, all_rows(df), [i \in Rows(df) |-> LET r == iloc(df, i) IN notnull(r.pt_deep_rebound)])
        rows_no_perfect_rebound ==
            Filter(df, all_rows(df), [i \in Rows(df) |-> LET r == iloc(df, i) IN notnull(r.no_perfect_rebound)])
        rows_no_rebound_ == rows_no_rebound(rows_no_perfect_rebound, rows_deep_rebound)
        general ==
            [ perfect |-> Len(rows_perfect_rebound),
              deep |-> Len(rows_deep_rebound),
              rebound |-> Len(rows_perfect_rebound) + Len(rows_deep_rebound),
              no_perfect |-> Len(rows_no_perfect_rebound),
              no_rebound |-> Len(rows_no_rebound_),
              points |-> Len(rows_perfect_rebound) + Len(rows_deep_rebound)
                            + Len(rows_no_rebound_),
              total_days |-> Len(df) ]
        point_perfect_rebound ==
            Column(df, rows_first_rebound, "first_rebound")
                \o Column(df, rows_second_rebound, "second_rebound")
        point_deep_rebound == Column(df, rows_deep_rebound, "no_perfect_rebound")
        pt_of(rows) == [j \in DOMAIN rows |-> iloc(df, rows[j]).pt_deep_rebound[1]]
        pt_deep_rebound == pt_of(rows_deep_rebound)
        pt_deep_rebound_pivot ==
            pt_of(Filter(df, rows_deep_rebound, [i \in Rows(df) |-> LET r == iloc(df, i) IN r.no_perfect_rebound = Some("PP")]))
        pt_deep_rebound_support ==
            pt_of(Filter(df, rows_deep_rebound, [i \in Rows(df) |-> LET r == iloc(df, i) IN r.no_perfect_rebound = Some("S")]))
        pt_deep_rebound_resistance ==
            pt_of(Filter(df, rows_deep_rebound, [i \in Rows(df) |-> LET r == iloc(df, i) IN r.no_perfect_rebound = Some("R")]))
        point_no_rebound == Column(df, rows_no_rebound_, "no_perfect_rebound")
        days_with_perfect_rebound == rows_first_rebound
        days_with_deep_rebound == rows_deep_rebound
        days_with_no_rebound == rows_no_rebound_
        days_with_no_perfect_rebound == rows_no_perfect_rebound
        days_with_rebound == list_set(days_with_perfect_rebound \o days_with_deep_rebound)
        days_with_demark == list_set(days_with_rebound \o days_with_no_rebound)
        days_with_no_demark == not_in(RangeSeq(0, general.total_days, 1), days_with_demark)
        demark_days_with_rebound == days_with_rebound
        demark_days_with_rebound_only == not_in(days_with_rebound, days_with_no_rebound)
        demark_days_with_perfect_rebound_only ==
            not_in(days_with_perfect_rebound, days_with_no_perfect_rebound)
        demark_days_with_deep_rebound_only ==
            not_in(days_with_deep_rebound, days_with_perfect_rebound)
        demark_days_with_no_rebound_only == not_in(days_with_no_rebound, days_with_rebound)
        demark_days_with_no_rebound == days_with_no_rebound
        count_demark == Len(days_with_demark)
        c_pp == count_point("PP", point_perfect_rebound, point_deep_rebound, point_no_rebound)
        c_s == count_point("S", point_perfect_rebound, point_deep_rebound, point_no_rebound)
        c_r == count_point("R", point_perfect_rebound, point_deep_rebound, point_no_rebound)
        trend_no_rebound == Column(df, rows_no_rebound_, "trend")
        es_pp_no_rebound == Column(df, rows_no_rebound_, "es_pp")
        count_days_no_rebound == Len(rows_no_rebound_)
        PutG(key, v) == Put("stats_pivot_points", "General", Key(key), v)
        PutD(key, v) == Put("stats_pivot_points", "Days with demark", Key(key), v)
    IN  << Local("rows_first_rebound", Return(ListV(rows_first_rebound))),
           Local("rows_second_rebound", Return(ListV(rows_second_rebound))),
           Local("rows_perfect_rebound", Return(ListV(rows_perfect_rebound))),
           Local("rows_deep_rebound", Return(ListV(rows_deep_rebound))),
           Local("rows_no_perfect_rebound", Return(ListV(rows_no_perfect_rebound))),
           Local("rows_no_rebound", Return(ListV(rows_no_rebound_))),
           PutG("count perfect rebound", Return(IntV(general.perfect))),
           PutG("count deep rebound", Return(IntV(general.deep))),
           PutG("count rebound", Return(IntV(general.rebound))),
           PutG("count no perfect rebound", Return(IntV(general.no_perfect))),
           PutG("count no rebound", Return(IntV(general.no_rebound))),
           PutG("count points", Return(IntV(general.points))),
           PutG("total days", Return(IntV(general.total_days))),
           Local("point_perfect_rebound", Return(ListV(point_perfect_rebound))),
           Local("point_deep_rebound", Return(ListV(point_deep_rebound))),
           Local("pt_deep_rebound", Return(ListV(pt_deep_rebound))),
           Local("point_no_rebound", Return(ListV(point_no_rebound))),
           Local("days_with_rebound", Return(ListV(days_with_rebound))),
           Local("days_with_demark", Return(ListV(days_with_demark))),
           Local("days_with_no_demark", Return(ListV(days_with_no_demark))),
           Local("demark_days_with_rebound_only", Return(ListV(demark_days_with_rebound_only))),
           Local("demark_days_with_perfect_rebound_only",
                 Return(ListV(demark_days_with_perfect_rebound_only))),
           Local("demark_days_with_deep_rebound_only",
                 Return(ListV(demark_days_with_deep_rebound_only))),
           Local("demark_days_with_no_rebound_only",
                 Return(ListV(demark_days_with_no_rebound_only))),
           PutD("count", Return(IntV(count_demark))),
           PutD("with rebound", Div(100 * Len(demark_days_with_rebound), count_demark)),
           PutD("only rebound", Div(100 * Len(demark_days_with_rebound_only), count_demark)),
           PutD("only perfect rebound",
                Div(100 * Len(demark_days_with_perfect_rebound_only), count_demark)),
           PutD("only deep rebound",
                Div(100 * Len(demark_days_with_deep_rebound_only), count_demark)),
           PutD("only no rebound",
                Div(100 * Len(demark_days_with_no_rebound_only), count_demark)),
           PutD("with no rebound", Div(100 * Len(demark_days_with_no_rebound), count_demark)),
           PutD("with perfect rebound", Div(100 * Len(days_with_perfect_rebound), count_demark)),
           PutD("with deep rebound", Div(100 * Len(days_with_deep_rebound), count_demark)),
           PutG("pct days with rebound", Div(100 * Len(days_with_rebound), general.total_days)),
           PutG("pct days no demark", Div(100 * Len(days_with_no_demark), general.total_days)),
           PutG("pct days with demark", Div(100 * Len(days_with_demark), general.total_days)),
           PutG("pct rebound", Div(100 * general.rebound, general.points)),
           PutG("pct no rebound", Div(100 * general.no_rebound, general.points)),
           PutG("pct perfect rebound", Div(100 * general.perfect, general.points)),
           PutG("pct deep rebound", Div(100 * general.deep, general.points)),
           PutG("pct perfect rebound if rebound", Div(100 * general.perfect, general.rebound)),
           PutG("pt deep rebound", Return(ListV(pt_deep_rebound))) >>
        \o level_statements("Pivot", "pivot",
               << "count_pp_perfect_rebound", "count_pp_deep_rebound", "count_pp_no_rebound",
                  "count_pp_total" >>, c_pp, general, pt_deep_rebound_pivot)
        \o level_statements("Support", "support",
               << "count_support_perfect_rebound", "count_support_deep_rebound",
                  "count_support_no_rebound", "count_support_total" >>,
               c_s, general, pt_deep_rebound_support)
        \o level_statements("Resistance", "resistance",
               << "count_resistance_perfect_rebound", "count_resistance_deep_rebound",
                  "count_resistance_no_rebound", "count_resistance_total" >>,
               c_r, general, pt_deep_rebound_resistance)
        \o deep_rebound_statements("General", "Demark", "cdf_deep_rebound", pt_deep_rebound,
                                   pt_deep_rebound, Return(IntV(100)))
        \o deep_rebound_statements("Pivot", "pivot", "cdf_deep_rebound_pivot",
                                   pt_deep_rebound_pivot, pt_deep_rebound,
                                   Div(100 * Len(pt_deep_rebound_pivot), Len(pt_deep_rebound)))
        \o deep_rebound_statements("Support", "support", "cdf_deep_rebound_support",
                                   pt_deep_rebound_support, pt_deep_rebound,
                                   Div(100 * Len(pt_deep_rebound_support), Len(pt_deep_rebound)))
        \o deep_rebound_statements("Resistance", "resistance", "cdf_deep_rebound_resistance",
                                   pt_deep_rebound_resistance, pt_deep_rebound,
                                   Div(100 * Len(pt_deep_rebound_resistance),
                                       Len(pt_deep_rebound)))
        \o
        << Put("stats_no_rebound", "Range", Key(" "), Return(StrV(" "))),
           Put("stats_no_rebound", "Range", Key("% uptrend"),
               Div(100 * count(trend_no_rebound, 1), count_days_no_rebound)),
           Put("stats_no_rebound", "Range", Key("% downtrend"),
               Div(100 * count(trend_no_rebound, -1), count_days_no_rebound)),
           Put("stats_no_rebound", "Range", Key("% range"),
               Div(100 * count(trend_no_rebound, 0), count_days_no_rebound)),
           Put("stats_no_rebound", "ES PP", Key(" "), Return(StrV(" "))),
           Put("stats_no_rebound", "ES PP", Key("% es<PP (8:30)"),
               Div(100 * (count(es_pp_no_rebound, 0) + count(es_pp_no_rebound, 2)),
                   count_days_no_rebound)),
           Put("stats_no_rebound", "ES PP", Key("% es>PP (8:30)"),
               Div(100 * (count(es_pp_no_rebound, 1) + count(es_pp_no_rebound, -1)),
                   count_days_no_rebound)),
           Put("stats_no_rebound", "Point", Key(" "), Return(StrV(" "))),
           Put("stats_no_rebound", "Point", Key("% resistance"),
               Div(100 * count(point_no_rebound, Some("R")), count_days_no_rebound)),
           Put("stats_no_rebound", "Point", Key("% pivot"),
               Div(100 * count(point_no_rebound, Some("PP")), count_days_no_rebound)),
           Put("stats_no_rebound", "Point", Key("% support"),
               Div(100 * count(point_no_rebound, Some("S")), count_days_no_rebound)) >>

-----------------------------------------------------------------------------
(* __analyze_range *)

BIN_RANGE_CPF == 5
BIN_TREND_CPF == 10

\* for i, x in enumerate(cpfs[lead]["x"]): one assignment per row of the table,
\* in the order of the rows (nothing when a call that made the CPFs raised)
PutCpf3(d, groups, cpfs, lead, style) ==
    IF \E m \in 1..3 : cpfs[m].exc # "none" THEN <<>>
    ELSE LET xs == cpfs[lead].val.x
         IN  [j \in 1..(3 * Len(xs)) |->
                LET i == (j - 1) \div 3 + 1
                    m == ((j - 1) % 3) + 1
                IN  Put(d, groups[m], cpf_key(style, xs[i]), Return(cpfs[m].val.cpf[i]))]

\* the block of __analyze_range for one trend class; the subset named
\* es_lower_pp takes the codes 1 and -1 and the one named es_higher_pp the
\* codes 0 and 2, as the source does.  trend is the field that holds the
\* sessions of the class: a DataFrame once __analyze_reversal_each_trend has
\* assigned it, the list [] before, and [][<column name>] is a TypeError
range_statements(df, d, groups, labels, names, trend, bin_span) ==
    LET trend_df == IF is_dataframe(trend) THEN trend.list ELSE <<>>
        column(v) == IF is_dataframe(trend) THEN Return(ListV(v)) ELSE Raise("TypeError")
        all_days == Column(df, trend_df, "max_range")
        es_lower_pp_ == Column(df, Filter(df, trend_df, [i \in Rows(df) |-> LET r == iloc(df, i) IN es_higher_pp(r)]), "max_range")
        es_higher_pp_ == Column(df, Filter(df, trend_df, [i \in Rows(df) |-> LET r == iloc(df, i) IN es_lower_pp(r)]), "max_range")
        bin_max == int_max(all_days)
        cpf_of(data) == IF bin_max.exc # "none" THEN bin_max
                        ELSE calc_cpf(data, bin_max.val, bin_span)
        cpfs == << cpf_of(all_days), cpf_of(es_lower_pp_), cpf_of(es_higher_pp_) >>
    IN  << Put(d, groups[1], Key(" "), Return(StrV(labels[1]))),
           Put(d, groups[2], Key(" "), Return(StrV(labels[2]))),
           Put(d, groups[3], Key(" "), Return(StrV(labels[3]))),
           Local(names[1], column(all_days)),
           Local(names[2], column(es_lower_pp_)),
           Local(names[3], column(es_higher_pp_)),
           Local(names[4], cpfs[1]),
           Local(names[5], cpfs[2]),
           Local(names[6], cpfs[3]) >>
        \o PutCpf3(d, groups, cpfs, 1, "pt")

analyze_range_statements(df, a) ==
    range_statements(df, "stats_range_range",
        << "Range", "Range ES<PP", "Range ES>PP" >>,
        << "range", "range ES<PP 8:30", "range ES>PP 8:30" >>,
        << "range_range_all_days", "range_range_es_lower_pp", "range_range_es_higher_pp",
           "range_cpf", "range_es_lower_pp_cpf", "range_es_higher_pp_cpf" >>,
        a.es_range_df, BIN_RANGE_CPF)
    \o range_statements(df, "stats_range_uptrend",
        << "Uptrend", "Uptrend ES<PP", "Uptrend ES>PP" >>,
        << "uptrend", "uptrend ES<PP 8:30", "uptrend ES>PP 8:30" >>,
        << "range_uptrend_all_days", "range_uptrend_es_lower_pp",
           "range_uptrend_es_higher_pp", "uptrend_cpf", "uptrend_es_lower_pp_cpf",
           "uptrend_es_higher_pp_cpf" >>,
        a.es_uptrend_df, BIN_TREND_CPF)
    \o range_statements(df, "stats_range_downtrend",
        << "Downtrend", "Downtrend ES<PP", "Downtrend ES>PP" >>,
        << "downtrend", "downtrend ES<PP 8:30", "downtrend ES>PP 8:30" >>,
        << "range_downtrend_all_days", "range_downtrend_es_lower_pp",
           "range_downtrend_es_higher_pp", "downtrend_cpf", "downtrend_es_lower_pp_cpf",
           "downtrend_es_higher_pp_cpf" >>,
        a.es_downtrend_df, BIN_TREND_CPF)

-----------------------------------------------------------------------------
(* __analyze_no_rebound *)

\* values.astype(int) of non-negative point values held in ticks
astype_int(l) == [j \in DOMAIN l |-> (l[j] \div TicksPerPoint) * TicksPerPoint]

analyze_no_rebound_statements(df) ==
    LET no_rebounds_df ==
            Filter(df, all_rows(df),
                   [i \in Rows(df) |-> LET r == iloc(df, i) IN isnull(r.pt_deep_rebound) /\ notnull(r.no_perfect_rebound)])
        level_df(lv) == Filter(df, no_rebounds_df, [i \in Rows(df) |-> LET r == iloc(df, i) IN r.no_perfect_rebound = Some(lv)])
        no_rebounds_pivot_df == level_df("PP")
        no_rebounds_support_df == level_df("S")
        no_rebounds_resistance_df == level_df("R")
        cpf_hour(rows) == cpf_time_of(Column(df, rows, "time_cross"))
        cpfs_hour == << cpf_hour(no_rebounds_pivot_df), cpf_hour(no_rebounds_support_df),
                        cpf_hour(no_rebounds_resistance_df) >>
        bin_max == int_max(Column(df, no_rebounds_df, "body_candle"))
        cpf_body(rows) ==
            IF bin_max.exc # "none" THEN bin_max
            ELSE calc_cpf(astype_int(Column(df, Filter(df, rows, [i \in Rows(df) |-> LET r == iloc(df, i) IN r.body_candle > 0]),
                                            "body_candle")),
                          bin_max.val, 5)
        cpfs_body == << cpf_body(no_rebounds_pivot_df), cpf_body(no_rebounds_support_df),
                        cpf_body(no_rebounds_resistance_df) >>
        groups == << "Pivot", "Support", "Resistance" >>
    IN  << Local("no_rebounds_df", Return(ListV(no_rebounds_df))),
           Local("no_rebounds_pivot_df", Return(ListV(no_rebounds_pivot_df))),
           Local("no_rebounds_support_df", Return(ListV(no_rebounds_support_df))),
           Local("no_rebounds_resistance_df", Return(ListV(no_rebounds_resistance_df))),
           Local("cpf_hour_no_rebound_pivot", cpfs_hour[1]),
           Local("cpf_hour_no_rebound_support", cpfs_hour[2]),
           Local("cpf_hour_no_rebound_resistance", cpfs_hour[3]),
           Put("time_stats_no_rebound", "Pivot", Key(" "), Return(StrV("pivot"))),
           Put("time_stats_no_rebound", "Support", Key(" "), Return(StrV("support"))),
           Put("time_stats_no_rebound", "Resistance", Key(" "), Return(StrV("resistance"))) >>
        \o PutCpf3("time_stats_no_rebound", groups, cpfs_hour, 1, "time")
        \o
        << Local("cpf_body_no_rebound_pivot", cpfs_body[1]),
           Local("cpf_body_no_rebound_support", cpfs_body[2]),
           Local("cpf_body_no_rebound_resistance", cpfs_body[3]),
           Put("body_stats_no_rebound", "Pivot", Key(" "), Return(StrV("pivot"))),
           Put("body_stats_no_rebound", "Support", Key(" "), Return(StrV("support"))),
           Put("body_stats_no_rebound", "Resistance", Key(" "), Return(StrV("resistance"))) >>
        \o PutCpf3("body_stats_no_rebound", groups, cpfs_body, 3, "pt")

-----------------------------------------------------------------------------
(* __write_html *)

FACTOR_ROUND == 10

\* __round(n) = int(n * FACTOR_ROUND) / FACTOR_ROUND, n a non-negative quotient
round(n) == Frac((n.n * FACTOR_ROUND) \div n.d, FACTOR_ROUND)

\* What __write_html writes, in order: the lines and tables that carry
\* statistics, each with the rows (dictionaries) it is built from.  The
\* dates of the period line and the fixed text are left out.  Every key read
\* here has been assigned when the four analyses have completed, which is the
\* only way run() reaches __write_html.
html_report(s) ==
    LET R == s.stats_reversal
        H == s.stats_hour_reversal
        P == s.stats_pivot_points
        D == s.stats_deep_rebound
        G(k) == get(P["General"], Key(k))
        W(k) == get(P["Days with demark"], Key(k))
        point_type(label, g) ==
            << <<Key(" "), StrV(label)>>,
               <<Key("% rebound"), get(P[g], Key("pct rebound"))>>,
               <<Key("% perfect rebound"), get(P[g], Key("pct perfect rebound"))>>,
               <<Key("% deep rebound"), get(P[g], Key("pct deep rebound"))>>,
               <<Key("% no rebound"), get(P[g], Key("pct no rebound"))>> >>
        table(name, rows) == [name |-> name, rows |-> rows]
    IN  << table("Days with trend reversal",
                 << << <<Key("%"), round(get(R["General"], Key("pct with reversal")))>> >> >>),
           table("days_reversal_df", << R["reversal day"] >>),
           table("trend_days_reversal_df",
                 << R["uptrend day"], R["downtrend day"], R["range day"] >>),
           table("trend_days_hour_reversal_df",
                 << H["General"], H["Uptrend"], H["Downtrend"], H["Range"] >>),
           table("trend_reversal_df", << s.range_then_reversal["top"] >>),
           table("frequency_point_df",
                 << << <<Key(" "), StrN(G("count points").int, " crossed Demark points")>>,
                       <<Key("% resistance"), get(P["Resistance"], Key("pct point"))>>,
                       <<Key("% pivot"), get(P["Pivot"], Key("pct point"))>>,
                       <<Key("% support"), get(P["Support"], Key("pct point"))>> >> >>),
           table("days_df",
                 << << <<Key(" "), StrN(G("total days").int, " days")>>,
                       <<Key("% days with Demark"), G("pct days with demark")>>,
                       <<Key("% days without Demark"), G("pct days no demark")>>,
                       <<Key("% days with a rebound*"), G("pct days with rebound")>> >> >>),
           table("days_with_demark_df",
                 << << <<Key(" "), StrN(W("count").int, " days with Demark points")>>,
                       <<Key("% with at least 1 rebound"), W("with rebound")>>,
                       <<Key("% with at least 1 perfect rebound"), W("with perfect rebound")>>,
                       <<Key("% with at least 1 deep rebound"), W("with deep rebound")>>,
                       <<Key("% with at least 1 rebound without failed rebound"),
                         W("only rebound")>>,
                       <<Key("% with at least 1 perfect rebound without failed rebound"),
                         W("only perfect rebound")>>,
                       <<Key("% with at least 1 deep rebound without failed rebound"),
                         W("only deep rebound")>>,
                       <<Key("% with 1 failed rebound"), W("with no rebound")>>,
                       <<Key("% with 1 failed rebound and without rebounds"),
                         W("only no rebound")>> >> >>),
           table("point_type_df",
                 << point_type("resistance", "Resistance"), point_type("pivot", "Pivot"),
                    point_type("support", "Support"), point_type("any Demark", "General") >>),
           table("deep_type_df",
                 << D["General"], D["Resistance"], D["Pivot"], D["Support"] >>),
           table("range_range_df",
                 << s.stats_range_range["Range"], s.stats_range_range["Range ES<PP"],
                    s.stats_range_range["Range ES>PP"] >>),
           table("range_uptrend_df",
                 << s.stats_range_uptrend["Uptrend"], s.stats_range_uptrend["Uptrend ES<PP"],
                    s.stats_range_uptrend["Uptrend ES>PP"] >>),
           table("range_downtrend_df",
                 << s.stats_range_downtrend["Downtrend"],
                    s.stats_range_downtrend["Downtrend ES<PP"],
                    s.stats_range_downtrend["Downtrend ES>PP"] >>),
           table("no_rebound_time_analysis_df",
                 << s.time_stats_no_rebound["Pivot"], s.time_stats_no_rebound["Support"],
                    s.time_stats_no_rebound["Resistance"] >>),
           table("no_rebound_body_analysis_df",
                 << s.body_stats_no_rebound["Pivot"], s.body_stats_no_rebound["Support"],
                    s.body_stats_no_rebound["Resistance"] >>) >>

-----------------------------------------------------------------------------
(* The input tables *)

Row(trend, new_trend, hour, max_range, es_pp, first, second, pt_deep, no_perfect, time_cross, body) ==
    [ trend |-> trend, new_trend |-> new_trend, hour_trend_change |-> hour,
      max_range |-> max_range, es_pp |-> es_pp, first_rebound |-> first,
      second_rebound |-> second, pt_deep_rebound |-> pt_deep,
      no_perfect_rebound |-> no_perfect, time_cross |-> time_cross, body_candle |-> body ]

\* n points and h half points, in ticks
Pt(n) == n * TicksPerPoint
Half == TicksPerPoint \div 2

\* The sessions the tables are made of.  Rows 1-6 together let every stage of
\* run() complete; the others are the irregular sessions.
RowKinds ==
    << \* 1: uptrend reversing down, perfect rebound at PP, deep rebound at S
       Row(1, Some(-1), Some(Time(10, 15)), Pt(12) + Half, 1,
           Some("PP"), NaN, Some(Pt(3)), Some("S"), Some(Time(9, 40)), Pt(2)),
       \* 2: downtrend reversing up, perfect rebounds at S and R, deep rebound at PP
       Row(-1, Some(1), Some(Time(11, 0)), Pt(15), 2,
           Some("S"), Some("R"), Some(Pt(5) + Half), Some("PP"), Some(Time(10, 5)), Pt(1)),
       \* 3: range day breaking up, failed rebound at R
       Row(0, Some(1), Some(Time(13, 30)), Pt(6), 0,
           NaN, NaN, NaN, Some("R"), Some(Time(12, 10)), Pt(3)),
       \* 4: range day breaking down, deep rebound at R
       Row(0, Some(-1), Some(Time(14, 10)), Pt(9), -1,
           NaN, NaN, Some(Pt(2)), Some("R"), Some(Time(9, 35)), 0),
       \* 5: uptrend without reversal, failed rebound at PP
       Row(1, NaN, NaN, Pt(20), 0,
           NaN, NaN, NaN, Some("PP"), Some(Time(9, 50)), Pt(4)),
       \* 6: downtrend without reversal, failed rebound at S
       Row(-1, NaN, NaN, Pt(8), -1,
           NaN, NaN, NaN, Some("S"), Some(Time(15, 20)), Pt(6) + Half),
       \* 7: perfect rebound at PP and, the same day, a failed rebound at PP
       Row(1, Some(-1), Some(Time(9, 45)), Pt(11), 1,
           Some("PP"), NaN, NaN, Some("PP"), Some(Time(11, 20)), Pt(5)),
       \* 8: a deep-rebound distance filled in without a level
       Row(-1, Some(1), Some(Time(12, 0)), Pt(7), 2,
           NaN, NaN, Some(Pt(4)), NaN, NaN, 0),
       \* 9: a quiet range day: no reversal, no level touched
       Row(0, NaN, NaN, Pt(4), 1,
           NaN, NaN, NaN, NaN, NaN, 0),
       \* 10: uptrend with the hour of a trend change but no new trend entered
       Row(1, NaN, Some(Time(10, 40)), Pt(10), 0,
           NaN, NaN, NaN, Some("PP"), Some(Time(9, 55)), Pt(1)) >>

RECURSIVE KindSeqs(_, _)
\* the non-decreasing sequences of n kinds, each at least k
KindSeqs(n, k) ==
    IF n = 0 THEN {<<>>}
    ELSE UNION {{<<h>> \o t : t \in KindSeqs(n - 1, h)} : h \in k..Len(RowKinds)}

\* The tables read from the sheet: up to MaxRows sessions of the kinds above.
\* No statistic depends on the order of the rows (each is a count, a mean or
\* a CPF over a subset of rows), so the tables are enumerated up to row order.
Tables ==
    {[j \in DOMAIN ks |-> RowKinds[ks[j]]] : ks \in UNION {KindSeqs(n, 1) : n \in 0..MaxRows}}

-----------------------------------------------------------------------------
(* run() *)

Init ==
    /\ pc = "query_data"
    /\ error = NoError
    /\ es_price_df = <<>>
    /\ attrs = attrs_init
    /\ stats = stats_init
    /\ frame = NoFrame
    /\ report = NoReport
    /\ calls = <<>>
    /\ stdout = <<>>
    /\ previous = NoRun
    /\ cpf_call = NoCall
    /\ cpf_ret = Pending

\* query_data when the sheet holds one of the tables T: pd.read_excel returns it
Load(T) ==
    /\ pc = "query_data"
    /\ \E t \in T :
          /\ es_price_df' = t
          /\ attrs' = [attrs EXCEPT !.num_days = IntV(Len(t))]
    /\ pc' = "analyze_reversal"
    /\ calls' = Append(calls, "query_data")
    /\ UNCHANGED <<error, stats, frame, report, stdout, previous, cpf_call, cpf_ret>>

\* query_data: pd.read_excel returns the sheet
query_data == Load(Tables)

\* query_data: pd.read_excel raises; the handler prints and calls sys.exit(1)
query_data_fails ==
    /\ pc = "query_data"
    /\ pc' = "exit"
    /\ error' = [exc |-> "SystemExit", code |-> 1, stage |-> "query_data"]
    /\ calls' = Append(calls, "query_data")
    /\ stdout' = Append(stdout, "Cannot query historical data:")
    /\ UNCHANGED <<es_price_df, attrs, stats, frame, report, previous, cpf_call, cpf_ret>>

\* a call that runs the method on dictionaries emptied first
CallCleared(method, sts, next) ==
    LET o == RunStatements(attrs, stats_init, sts)
    IN  /\ attrs' = o.attrs
        /\ stats' = o.stats
        /\ frame' = [method |-> method, locals |-> o.locals]
        /\ IF o.exc = "none"
           THEN pc' = next /\ error' = error
           ELSE pc' = "raised" /\ error' = [exc |-> o.exc, code |-> 1, stage |-> method]
        /\ calls' = Append(calls, method)
        /\ UNCHANGED <<es_price_df, report, stdout, previous, cpf_call, cpf_ret>>

\* a call of an analysis method: its statements run until one raises; the
\* caller catches nothing, so an exception ends the run with a traceback
Call(method, sts, next) ==
    LET o == RunStatements(attrs, stats, sts)
    IN  /\ attrs' = o.attrs
        /\ stats' = o.stats
        /\ frame' = [method |-> method, locals |-> o.locals]
        /\ IF o.exc = "none"
           THEN pc' = next /\ error' = error
           ELSE pc' = "raised" /\ error' = [exc |-> o.exc, code |-> 1, stage |-> method]
        /\ calls' = Append(calls, method)
        /\ UNCHANGED <<es_price_df, report, stdout, previous, cpf_call, cpf_ret>>

\* a stage that is entered again when its method has returned
StageRepeated(method, sts, next) == pc = method /\ Call(method, sts, method)

\* a stage after which run() goes on when its method has raised
StageContinued(method, sts, next) ==
    LET o == RunStatements(attrs, stats, sts)
    IN  /\ pc = method
        /\ attrs' = o.attrs
        /\ stats' = o.stats
        /\ frame' = [method |-> method, locals |-> o.locals]
        /\ pc' = next
        /\ error' = IF o.exc = "none" THEN error
                    ELSE [exc |-> o.exc, code |-> 1, stage |-> method]
        /\ calls' = Append(calls, method)
        /\ UNCHANGED <<es_price_df, report, stdout, previous, cpf_call, cpf_ret>>

\* an analysis method called from run(), at its place in run()
Stage(method, sts, next) == pc = method /\ Call(method, sts, next)

analyze_reversal ==
    Stage("analyze_reversal", analyze_reversal_statements(es_price_df, attrs),
          "analyze_pivot_points")

analyze_pivot_points ==
    Stage("analyze_pivot_points", analyze_pivot_points_statements(es_price_df),
          "analyze_range")

analyze_range ==
    Stage("analyze_range", analyze_range_statements(es_price_df, attrs), "analyze_no_rebound")

analyze_no_rebound ==
    Stage("analyze_no_rebound", analyze_no_rebound_statements(es_price_df), "write_html")

WriteHtmlExit == [exc |-> "SystemExit", code |-> 1, stage |-> "write_html"]

\* __write_html: the file is opened for writing (and so emptied) and written
\* in full; run() prints where the report is and returns
write_html ==
    /\ pc = "write_html"
    /\ report' = [opened |-> TRUE, written |-> html_report(stats)]
    /\ pc' = "done"
    /\ calls' = Append(calls, "write_html")
    /\ stdout' = Append(stdout, "Report written in: ")
    /\ UNCHANGED <<error, es_price_df, attrs, stats, frame, previous, cpf_call, cpf_ret>>

\* __write_html: open raises (no such folder, no permission); the handler
\* prints and calls sys.exit(1), the file is not touched
write_html_open_fails ==
    /\ pc = "write_html"
    /\ pc' = "exit"
    /\ error' = WriteHtmlExit
    /\ calls' = Append(calls, "write_html")
    /\ stdout' = Append(stdout, "Cannot create the html file:")
    /\ UNCHANGED <<es_price_df, attrs, stats, frame, report, previous, cpf_call, cpf_ret>>

\* __write_html: a write raises after k tables; the handler prints and calls
\* sys.exit(1), the file keeps what was written
write_html_write_fails ==
    /\ pc = "write_html"
    /\ \E k \in 0..(Len(html_report(stats)) - 1) :
          report' = [opened |-> TRUE, written |-> SubSeq(html_report(stats), 1, k)]
    /\ pc' = "exit"
    /\ error' = WriteHtmlExit
    /\ calls' = Append(calls, "write_html")
    /\ stdout' = Append(stdout, "Cannot create the html file:")
    /\ UNCHANGED <<es_price_df, attrs, stats, frame, previous, cpf_call, cpf_ret>>

Next ==
    \/ query_data
    \/ query_data_fails
    \/ analyze_reversal
    \/ analyze_pivot_points
    \/ analyze_range
    \/ analyze_no_rebound
    \/ write_html
    \/ write_html_open_fails
    \/ write_html_write_fails

Spec == Init /\ [][Next]_vars

-----------------------------------------------------------------------------
(* run() made twice on the same sheet *)

\* the tables of sessions of the first MaxPlainKinds kinds: those read when
\* run() is made twice and when the analyses are called in another order
PlainTables ==
    {t \in Tables : \A j \in DOMAIN t : \E h \in 1..MaxPlainKinds : t[j] = RowKinds[h]}

\* what a run left when it ended
Ended == [ran |-> TRUE, es_price_df |-> es_price_df, stats |-> stats, error |-> error]

\* the analyses of the run are over: they completed or one of them raised
analysis_over == pc \in {"write_html", "done", "exit", "raised"} /\ "query_data" \in Range(calls)
                    /\ ~(error.exc # "none" /\ error.stage = "query_data")

\* query_data of either run: the second run reads the sheet the first one read
query_data_twice ==
    Load(IF previous.ran THEN {previous.es_price_df} ELSE PlainTables)

\* es.run() is called a second time on the object whose run() has returned:
\* the fields and dictionaries keep what the first call assigned
run_again ==
    /\ pc = "done"
    /\ previous = NoRun
    /\ previous' = Ended
    /\ pc' = "query_data"
    /\ calls' = <<>>
    /\ UNCHANGED <<error, es_price_df, attrs, stats, frame, report, stdout, cpf_call, cpf_ret>>

\* the program is started a second time after its first run ended, with or
\* without an error: a new object, the report file as the first run left it
run_new_process ==
    /\ pc \in {"done", "exit", "raised"}
    /\ analysis_over
    /\ previous = NoRun
    /\ previous' = Ended
    /\ pc' = "query_data"
    /\ error' = NoError
    /\ es_price_df' = <<>>
    /\ attrs' = attrs_init
    /\ stats' = stats_init
    /\ frame' = NoFrame
    /\ calls' = <<>>
    /\ stdout' = <<>>
    /\ UNCHANGED <<report, cpf_call, cpf_ret>>

NextTwice ==
    \/ query_data_twice
    \/ analyze_reversal
    \/ analyze_pivot_points
    \/ analyze_range
    \/ analyze_no_rebound
    \/ write_html
    \/ write_html_open_fails
    \/ write_html_write_fails
    \/ run_again
    \/ run_new_process

SpecTwice == Init /\ [][NextTwice]_vars

-----------------------------------------------------------------------------
(* The analysis methods called in another order than run() calls them *)

\* the fields of the object when query_data has read df
Loaded(df) == [attrs_init EXCEPT !.num_days = IntV(Len(df))]

\* query_data has returned and no analysis has been called
InitAnyOrder ==
    /\ pc = "analyses"
    /\ error = NoError
    /\ es_price_df \in PlainTables
    /\ attrs = Loaded(es_price_df)
    /\ stats = stats_init
    /\ frame = NoFrame
    /\ report = NoReport
    /\ calls = <<"query_data">>
    /\ stdout = <<>>
    /\ previous = NoRun
    /\ cpf_call = NoCall
    /\ cpf_ret = Pending

\* the statements of an analysis method on table df and fields a
StatementsOf(method, df, a) ==
    CASE method = "analyze_reversal" -> analyze_reversal_statements(df, a)
      [] method = "analyze_pivot_points" -> analyze_pivot_points_statements(df)
      [] method = "analyze_range" -> analyze_range_statements(df, a)
      [] method = "analyze_no_rebound" -> analyze_no_rebound_statements(df)

\* an analysis method may be called: no call has raised and it was not called
callable(method) == pc = "analyses" /\ method \notin Range(calls)

\* each analysis method called once, whichever analyses were called before
reversal_any_order ==
    /\ callable("analyze_reversal")
    /\ Call("analyze_reversal", StatementsOf("analyze_reversal", es_price_df, attrs), "analyses")

pivot_points_any_order ==
    /\ callable("analyze_pivot_points")
    /\ Call("analyze_pivot_points", StatementsOf("analyze_pivot_points", es_price_df, attrs),
            "analyses")

range_any_order ==
    /\ callable("analyze_range")
    /\ Call("analyze_range", StatementsOf("analyze_range", es_price_df, attrs), "analyses")

no_rebound_any_order ==
    /\ callable("analyze_no_rebound")
    /\ Call("analyze_no_rebound", StatementsOf("analyze_no_rebound", es_price_df, attrs),
            "analyses")

NextAnyOrder ==
    \/ reversal_any_order
    \/ pivot_points_any_order
    \/ range_any_order
    \/ no_rebound_any_order

SpecAnyOrder == InitAnyOrder /\ [][NextAnyOrder]_vars

-----------------------------------------------------------------------------
(* Direct calls of the calculators on bounded inputs *)

SeqsUpTo(S, n) == UNION {[1..m -> S] : m \in 0..n}

ObsValues == 0..MaxObsTicks

TimeValues == {Time(h, m) : h \in 9..15, m \in {0, 20, 30}}

NumCalls ==
    [fn : {"calc_cpf"}, data : SeqsUpTo(ObsValues, MaxObs),
     bin_max : 0..MaxEdge, bin_span : 1..MaxSpan]

TimeCalls == [fn : {"calc_cpf_time"}, data : SeqsUpTo(TimeValues, MaxObs)]

InitCpf ==
    /\ pc = "idle"
    /\ error = NoError
    /\ es_price_df = <<>>
    /\ attrs = attrs_init
    /\ stats = stats_init
    /\ frame = NoFrame
    /\ report = NoReport
    /\ calls = <<>>
    /\ stdout = <<>>
    /\ previous = NoRun
    /\ cpf_call \in NumCalls \cup TimeCalls
    /\ cpf_ret = Pending

Call_calc_cpf ==
    /\ cpf_call.fn = "calc_cpf"
    /\ cpf_ret = Pending
    /\ cpf_ret' = calc_cpf(cpf_call.data, cpf_call.bin_max, cpf_call.bin_span)
    /\ UNCHANGED <<run_vars, cpf_call>>

Call_calc_cpf_time ==
    /\ cpf_call.fn = "calc_cpf_time"
    /\ cpf_ret = Pending
    /\ cpf_ret' = calc_cpf_time(cpf_call.data)
    /\ UNCHANGED <<run_vars, cpf_call>>

NextCpf == Call_calc_cpf \/ Call_calc_cpf_time

SpecCpf == InitCpf /\ [][NextCpf]_vars

-----------------------------------------------------------------------------
(* Properties of the CPF calculators, under SpecCpf *)

Returned == cpf_ret.exc = "none"
NumReturned == cpf_call.fn = "calc_cpf" /\ Returned
TimeReturned == cpf_call.fn = "calc_cpf_time" /\ Returned

\* the unit of the thresholds of the pending call, in the unit of its data
CallUnit == IF cpf_call.fn = "calc_cpf" THEN TicksPerPoint ELSE 1

\* observations of the call at or below threshold x
ObsAtOrBelow(x) == {i \in DOMAIN cpf_call.data : cpf_call.data[i] <= x * CallUnit}

MaxOf(S) == CHOOSE m \in S : \A o \in S : o <= m

Hundred == Frac(100, 1)
Zero == Frac(0, 1)

\* C1: for a non-empty observation sequence, bin width >= 1 and max edge >= 1,
\* __calc_cpf returns at each threshold x exactly
\* 100 * (number of observations <= x) / (number of observations), an
\* observation equal to x being counted.
C1_CpfValue ==
    (NumReturned /\ cpf_call.bin_max >= 1 /\ cpf_call.bin_span >= 1) =>
        /\ Len(cpf_call.data) > 0
        /\ DOMAIN cpf_ret.val.cpf = DOMAIN cpf_ret.val.x
        /\ \A j \in DOMAIN cpf_ret.val.x :
              cpf_ret.val.cpf[j].n * Len(cpf_call.data)
                  = 100 * Cardinality(ObsAtOrBelow(cpf_ret.val.x[j])) * cpf_ret.val.cpf[j].d

\* an observation lies exactly on a threshold that is not the last one, and
\* another one above it
C1_Witness ==
    /\ NumReturned /\ cpf_call.bin_max >= 1
    /\ \E j \in DOMAIN cpf_ret.val.x :
          /\ j < Len(cpf_ret.val.x)
          /\ \E i \in DOMAIN cpf_call.data :
                cpf_call.data[i] = cpf_ret.val.x[j] * TicksPerPoint
          /\ \E i \in DOMAIN cpf_call.data :
                cpf_call.data[i] > cpf_ret.val.x[j] * TicksPerPoint
          /\ FracEq(cpf_ret.val.cpf[j], Frac(50, 1))

\* C2: for bin width >= 1 and max edge >= 1 the thresholds of __calc_cpf are
\* strictly increasing: every positive multiple of the bin width strictly
\* below the max edge, then the max edge, which occurs once, as last element.
C2_Thresholds ==
    (NumReturned /\ cpf_call.bin_max >= 1 /\ cpf_call.bin_span >= 1) =>
        LET xs == cpf_ret.val.x
            n == Len(xs)
        IN  /\ n >= 1
            /\ xs[n] = cpf_call.bin_max
            /\ \A j \in 1..(n - 1) : xs[j] < xs[j + 1]
            /\ {xs[j] : j \in 1..(n - 1)}
                  = {m \in 1..cpf_call.bin_max :
                        m % cpf_call.bin_span = 0 /\ m < cpf_call.bin_max}
            /\ Cardinality({j \in 1..n : xs[j] = cpf_call.bin_max}) = 1

\* the max edge is itself a multiple of the bin width, above the bin width
C2_Witness ==
    /\ NumReturned
    /\ cpf_call.bin_max > cpf_call.bin_span
    /\ cpf_call.bin_max % cpf_call.bin_span = 0
    /\ Len(cpf_ret.val.x) = cpf_call.bin_max \div cpf_call.bin_span

\* C3: every CPF computed from a non-empty cohort (numeric and time-valued) is
\* non-decreasing in the threshold, lies in 0..100, and ends at 100 whenever
\* the final threshold is >= the maximum observation.
C3_Monotone ==
    Returned =>
        LET c == cpf_ret.val.cpf
            xs == cpf_ret.val.x
            n == Len(xs)
            obs == {cpf_call.data[i] : i \in DOMAIN cpf_call.data}
        IN  /\ n >= 1 /\ Len(c) = n
            /\ \A j \in 1..(n - 1) : FracLe(c[j], c[j + 1])
            /\ \A j \in 1..n : FracLe(Zero, c[j]) /\ FracLe(c[j], Hundred)
            /\ (xs[n] * CallUnit >= MaxOf(obs)) => FracEq(c[n], Hundred)

\* a time-valued CPF that rises strictly and ends at 100
C3_Witness ==
    /\ TimeReturned
    /\ Len(cpf_call.data) = 2
    /\ FracEq(cpf_ret.val.cpf[1], Zero)
    /\ \E j \in 2..11 : FracEq(cpf_ret.val.cpf[j], Frac(50, 1))
    /\ FracEq(cpf_ret.val.cpf[12], Hundred)

\* C4: for a cohort of exactly one observation v the CPF is 0 at every
\* threshold strictly below v and 100 at every threshold equal to or above v.
C4_SingleObservation ==
    (NumReturned /\ Len(cpf_call.data) = 1) =>
        \A j \in DOMAIN cpf_ret.val.x :
            IF cpf_ret.val.x[j] * TicksPerPoint < cpf_call.data[1]
            THEN FracEq(cpf_ret.val.cpf[j], Zero)
            ELSE FracEq(cpf_ret.val.cpf[j], Hundred)

\* one observation with a threshold below it, one equal to it and one above it
C4_Witness ==
    /\ NumReturned /\ Len(cpf_call.data) = 1
    /\ \E j \in DOMAIN cpf_ret.val.x :
          /\ j > 1 /\ j < Len(cpf_ret.val.x)
          /\ cpf_ret.val.x[j] * TicksPerPoint = cpf_call.data[1]
          /\ FracEq(cpf_ret.val.cpf[j - 1], Zero)
          /\ FracEq(cpf_ret.val.cpf[j], Hundred)
          /\ FracEq(cpf_ret.val.cpf[j + 1], Hundred)

\* C7: the time-valued CPF uses exactly the twelve thresholds 09:30, 10:00,
\* ..., 15:00, strictly increasing and 30 minutes apart, the same list in
\* every call, and at each threshold t returns
\* 100 * (number of observations <= t) / (number of observations).
C7_TimeCpf ==
    TimeReturned =>
        LET xs == cpf_ret.val.x
        IN  /\ Len(xs) = 12
            /\ xs[1] = 9 * 60 + 30
            /\ xs[12] = 15 * 60
            /\ \A j \in 1..11 : xs[j + 1] = xs[j] + 30
            /\ DOMAIN cpf_ret.val.cpf = 1..12
            /\ \A j \in 1..12 :
                  cpf_ret.val.cpf[j].n * Len(cpf_call.data)
                      = 100 * Cardinality(ObsAtOrBelow(xs[j])) * cpf_ret.val.cpf[j].d

\* one observation exactly at 13:00, another between two thresholds
C7_Witness ==
    /\ TimeReturned
    /\ \E i \in DOMAIN cpf_call.data : cpf_call.data[i] = 13 * 60
    /\ \E i \in DOMAIN cpf_call.data : cpf_call.data[i] % 30 # 0
    /\ FracEq(cpf_ret.val.cpf[8], Frac(50, 1))

-----------------------------------------------------------------------------
(* Properties of the reversal and pivot-point analyses, under Spec *)

\* the method that ran last
reversal_ran == frame.method = "analyze_reversal"
pivot_ran == frame.method = "analyze_pivot_points"

\* a local of the method that ran last
has_local(name) == has_key(frame.locals, Key(name))
local(name) == get(frame.locals, Key(name))

Elems(l) == {l[j] : j \in DOMAIN l}

\* the sessions of the table, by row label, and those with a given cell filled in
Sessions == 0..(Len(es_price_df) - 1)
NoPerfectSessions == {i \in Sessions : iloc(es_price_df, i).no_perfect_rebound # NaN}
DeepSessions == {i \in Sessions : iloc(es_price_df, i).pt_deep_rebound # NaN}

\* sessions of a trend class, and those of them with a reversal
TrendSessions(t) == {i \in Sessions : iloc(es_price_df, i).trend = t}
ReversalSessions(t) == {i \in TrendSessions(t) : iloc(es_price_df, i).new_trend # NaN}

General(key) == get(stats.stats_pivot_points["General"], Key(key))

\* C5: when the deep-rebound cohort of Resistance is empty while other levels
\* have deep rebounds, the pivot-point analysis completes and reports the
\* deep-rebound mean and CPF of Resistance as not applicable, without raising.
C5_EmptyCohortNotApplicable ==
    LET deep_at(lv) == {i \in DeepSessions : iloc(es_price_df, i).no_perfect_rebound = Some(lv)}
        resistance == stats.stats_deep_rebound["Resistance"]
        general == stats.stats_deep_rebound["General"]
    IN  ( /\ pivot_ran
          /\ deep_at("R") = {}
          /\ deep_at("PP") \cup deep_at("S") # {}
          \* the rows of the levels before Resistance are written
          /\ has_key(stats.stats_deep_rebound["Support"], Key("mean")) ) =>
            /\ pc # "raised"
            /\ has_key(resistance, Key("mean"))
            /\ get(resistance, Key("mean")) = NanV
            /\ \A j \in DOMAIN general :
                  general[j][1].num # <<>> =>
                      /\ has_key(resistance, general[j][1])
                      /\ get(resistance, general[j][1]) = NanV

\* C6: in the reversal analysis every percentage with a zero denominator is
\* guarded: on a table with no sessions of some trend class, or with no
\* reversals inside some trend class, the analysis completes instead of
\* aborting on a division by zero.
C6_ReversalGuarded ==
    ( /\ reversal_ran
      /\ \E t \in {1, -1, 0} : ReversalSessions(t) = {} ) =>
        ~(pc = "raised" /\ error.exc = "ZeroDivisionError")

\* C8: for every session and every level the touch of the level in the session
\* is counted in exactly one tally: as perfect when the level is in the first-
\* or second-rebound column, and only otherwise, when it is in the
\* no-perfect-rebound column, as deep or as failed.
C8_OneTallyPerTouch ==
    LET perfect(lv) == {i \in Sessions : \/ iloc(es_price_df, i).first_rebound = Some(lv)
                                         \/ iloc(es_price_df, i).second_rebound = Some(lv)}
        other(lv) == {i \in Sessions : iloc(es_price_df, i).no_perfect_rebound = Some(lv)}
                        \ perfect(lv)
        tallies(lv) == << Cardinality(perfect(lv)),
                          Cardinality(other(lv) \cap DeepSessions),
                          Cardinality(other(lv) \ DeepSessions) >>
        counted(w) == << local("count_" \o w \o "_perfect_rebound").int,
                         local("count_" \o w \o "_deep_rebound").int,
                         local("count_" \o w \o "_no_rebound").int >>
    IN  pivot_ran =>
            /\ has_local("count_pp_total") => counted("pp") = tallies("PP")
            /\ has_local("count_support_total") => counted("support") = tallies("S")
            /\ has_local("count_resistance_total") => counted("resistance") = tallies("R")

\* C9: the per-level counts add up to the General counts for each
\* classification (perfect, deep, failed), the three per-level totals add up
\* to General "count points" and the three "pct point" values to 100, also
\* with a session whose deep-rebound distance is filled in without a level.
C9_LevelCountsSumToGeneral ==
    LET sum(suffix) == local("count_pp_" \o suffix).int + local("count_support_" \o suffix).int
                          + local("count_resistance_" \o suffix).int
        pct(group) == get(stats.stats_pivot_points[group], Key("pct point"))
    IN  ( /\ pivot_ran
          /\ has_key(stats.stats_pivot_points["Resistance"], Key("pct point")) ) =>
            /\ sum("perfect_rebound") = General("count perfect rebound").int
            /\ sum("deep_rebound") = General("count deep rebound").int
            /\ sum("no_rebound") = General("count no rebound").int
            /\ sum("total") = General("count points").int
            /\ pct("Pivot").d = pct("Support").d /\ pct("Support").d = pct("Resistance").d
            /\ pct("Pivot").n + pct("Support").n + pct("Resistance").n
                  = 100 * pct("Pivot").d

\* C10: the failed-rebound set is the set of sessions with a no-perfect-rebound
\* level minus the sessions with a deep-rebound distance; the deep and the
\* failed set are disjoint and every session with a no-perfect-rebound level
\* is in exactly one of them.
C10_FailedSet ==
    pivot_ran =>
        LET failed == Elems(local("rows_no_rebound").list)
            deep == Elems(local("rows_deep_rebound").list)
        IN  /\ failed = NoPerfectSessions \ DeepSessions
            /\ deep = DeepSessions
            /\ failed \cap deep = {}
            /\ \A i \in NoPerfectSessions : (i \in failed) # (i \in deep)
            /\ Len(local("rows_no_rebound").list) = Cardinality(failed)
            /\ General("count no rebound") = IntV(Cardinality(failed))

\* the analysis ran on a table with a session that has both a level without
\* perfect rebound and a deep-rebound distance, one with the level only and
\* one with the distance only
C10_Witness ==
    /\ pivot_ran
    /\ NoPerfectSessions \cap DeepSessions # {}
    /\ NoPerfectSessions \ DeepSessions # {}
    /\ DeepSessions \ NoPerfectSessions # {}
    /\ Elems(local("rows_no_rebound").list) # {}
    /\ General("count no rebound").int < General("count no perfect rebound").int

-----------------------------------------------------------------------------
(* Properties of the open-versus-pivot buckets, under Spec *)

\* the sessions of a trend class the reversal analysis takes as reversed: those
\* with an hour of trend change
ThenReversal(t) == {i \in TrendSessions(t) : iloc(es_price_df, i).hour_trend_change # NaN}

\* the sessions with a raw open-versus-pivot code among the given ones
Coded(codes) == {i \in Sessions : iloc(es_price_df, i).es_pp \in codes}

\* the two buckets of the reversed sessions of a class, as the analysis left
\* them: w is the word the locals of the class start with
BucketLower(w) == Elems(local(w \o "_then_reversal_es_lower_pp").list)
BucketHigher(w) == Elems(local(w \o "_then_reversal_es_higher_pp").list)

\* C11: the two open-versus-pivot buckets are disjoint and cover the four raw
\* codes 0, 1, 2 and -1: every session with one of these codes is in exactly
\* one bucket (ES<PP for 0 and 2, ES>PP for 1 and -1), and for each trend
\* class the reversed sessions in the two buckets add up to the reversed
\* sessions of the class.
C11_BucketsPartition ==
    LET class(w, t) ==
            has_local(w \o "_then_reversal_es_lower_pp") =>
                /\ BucketLower(w) = ThenReversal(t) \cap Coded({0, 2})
                /\ BucketHigher(w) = ThenReversal(t) \cap Coded({1, -1})
                /\ BucketLower(w) \cap BucketHigher(w) = {}
                /\ Len(local(w \o "_then_reversal_es_lower_pp").list)
                      + Len(local(w \o "_then_reversal_es_higher_pp").list)
                   = Cardinality(ThenReversal(t) \cap Coded({0, 1, 2, -1}))
    IN  reversal_ran =>
            /\ class("uptrend", 1)
            /\ class("downtrend", -1)
            /\ class("range", 0)
            /\ pc # "raised" =>
                  /\ Elems(attrs.es_lower_pp_start.list) = Coded({0, 2})
                  /\ Elems(attrs.es_higher_pp_start.list) = Coded({1, -1})
                  /\ attrs.num_days_es_lower_pp_start.int
                        + attrs.num_days_es_higher_pp_start.int
                     = Cardinality(Coded({0, 1, 2, -1}))

\* the reversal analysis completed on a table where the reversed uptrend
\* sessions and the reversed range sessions fall in both buckets and a
\* reversed downtrend session has the code 2
C11_Witness ==
    /\ reversal_ran
    /\ pc # "raised"
    /\ BucketLower("uptrend") # {} /\ BucketHigher("uptrend") # {}
    /\ BucketLower("range") # {} /\ BucketHigher("range") # {}
    /\ BucketLower("downtrend") \cap Coded({2}) # {}

\* the analysis method m has been called and has returned
completed(m) == m \in Elems(calls) /\ ~(error.exc # "none" /\ error.stage = m)

\* the 'Max Range 8:30 - 13' values of the sessions of class t with a code
\* among the given ones, in row order
RangesOf(t, codes) ==
    Column(es_price_df,
           SelectSeq(all_rows(es_price_df),
                     LAMBDA i : i \in TrendSessions(t) /\ i \in Coded(codes)),
           "max_range")

\* row g of range table d holds, at every threshold, the CPF of the sessions
\* of class t with the given codes (nothing to compare when there are none)
RangeRowIsCpfOf(d, g, t, codes, bin_span) ==
    LET bin_max == int_max(RangesOf(t, {0, 1, 2, -1}))
        cpf == calc_cpf(RangesOf(t, codes), bin_max.val, bin_span)
    IN  (bin_max.exc = "none" /\ RangesOf(t, codes) # <<>>) =>
            \A j \in DOMAIN cpf.val.x :
                /\ has_key(stats[d][g], cpf_key("pt", cpf.val.x[j]))
                /\ FracEq(get(stats[d][g], cpf_key("pt", cpf.val.x[j])), cpf.val.cpf[j])

\* C12: the range distribution analysis uses the two-bucket split of the
\* reversal analysis: for each trend class the CPF row labelled ES<PP is
\* computed from the sessions of the class with raw code 0 or 2 and the row
\* labelled ES>PP from those with raw code 1 or -1.
C12_RangeRowsUseReversalBuckets ==
    completed("analyze_range") =>
        /\ RangeRowIsCpfOf("stats_range_range", "Range ES<PP", 0, {0, 2}, BIN_RANGE_CPF)
        /\ RangeRowIsCpfOf("stats_range_range", "Range ES>PP", 0, {1, -1}, BIN_RANGE_CPF)
        /\ RangeRowIsCpfOf("stats_range_uptrend", "Uptrend ES<PP", 1, {0, 2}, BIN_TREND_CPF)
        /\ RangeRowIsCpfOf("stats_range_uptrend", "Uptrend ES>PP", 1, {1, -1}, BIN_TREND_CPF)
        /\ RangeRowIsCpfOf("stats_range_downtrend", "Downtrend ES<PP", -1, {0, 2},
                           BIN_TREND_CPF)
        /\ RangeRowIsCpfOf("stats_range_downtrend", "Downtrend ES>PP", -1, {1, -1},
                           BIN_TREND_CPF)

\* a value of the reversal table
Reversal(group, key) == get(stats.stats_reversal[group], Key(key))

\* C13: for range days the two open-bucket reversal percentages have the same
\* denominator, the number of range-day sessions with a reversal, so they add
\* up to 100 whatever the number of downtrend-day reversals in the table.
C13_RangeDayBucketsSumTo100 ==
    ( /\ reversal_ran
      /\ has_key(stats.stats_reversal["range day"], Key("% reversal when ES>PP at 8:30am**")) ) =>
        LET lower == Reversal("range day", "% reversal when ES<PP at 8:30am**")
            higher == Reversal("range day", "% reversal when ES>PP at 8:30am**")
        IN  /\ lower.d = Cardinality(ThenReversal(0))
            /\ higher.d = Cardinality(ThenReversal(0))
            /\ lower.n * higher.d + higher.n * lower.d = 100 * lower.d * higher.d

-----------------------------------------------------------------------------
(* Properties of the reversal percentages, under Spec *)

\* the sessions with a reversal, of any class
AnyReversal == ThenReversal(1) \cup ThenReversal(-1) \cup ThenReversal(0)

\* the sessions of class t with a reversal to the new trend n
ThenTrend(t, n) == {i \in ThenReversal(t) : iloc(es_price_df, i).new_trend = Some(n)}

\* every session of the table has both an hour of trend change and a new
\* trend, or neither
RegularTable ==
    \A i \in Sessions :
        (iloc(es_price_df, i).hour_trend_change = NaN) = (iloc(es_price_df, i).new_trend = NaN)

\* C14: on a table with at least one reversal '% up then down' is 100 times
\* the number of uptrend sessions reversing to downtrend over the number of
\* sessions with a reversal in all trend classes, and '% down then up',
\* '% range then up' and '% range then down' likewise over the same
\* denominator; the '% with reversal' of a class is 100 times its sessions
\* with a reversal over its sessions (one of three uptrend sessions: 100/3).
C14_ReversalDayPercentages ==
    LET day == stats.stats_reversal["reversal day"]
        is(key, t, n) ==
            has_key(day, Key(key)) =>
                FracEq(get(day, Key(key)),
                       Frac(100 * Cardinality(ThenTrend(t, n)), Cardinality(AnyReversal)))
        with_reversal(g, t) ==
            (RegularTable /\ has_key(stats.stats_reversal[g], Key("% with reversal*"))) =>
                FracEq(Reversal(g, "% with reversal*"),
                       Frac(100 * Cardinality(ReversalSessions(t)),
                            Cardinality(TrendSessions(t))))
    IN  (reversal_ran /\ AnyReversal # {}) =>
            /\ has_key(day, Key(" ")) => has_key(day, Key("% down then up"))
            /\ is("% up then down", 1, -1)
            /\ is("% down then up", -1, 1)
            /\ is("% range then up", 0, 1)
            /\ is("% range then down", 0, -1)
            /\ with_reversal("uptrend day", 1)
            /\ with_reversal("downtrend day", -1)
            /\ with_reversal("range day", 0)

\* the reversal analysis completed on a table with three uptrend sessions of
\* which one reversed to downtrend, among reversals of the other classes
C14_Witness ==
    /\ reversal_ran
    /\ pc # "raised"
    /\ Cardinality(TrendSessions(1)) = 3
    /\ Cardinality(ThenTrend(1, -1)) = 1
    /\ ThenReversal(1) = ThenTrend(1, -1)
    /\ Cardinality(AnyReversal) = 3
    /\ FracEq(Reversal("uptrend day", "% with reversal*"), Frac(100, 3))
    /\ FracEq(Reversal("reversal day", "% up then down"), Frac(100, 3))

\* C15: for each trend class with at least one session '% with reversal' is
\* 100 times the number of sessions of the class with a new trend over the
\* number of sessions of the class, on every table, also when a session has an
\* hour of trend change without a new trend.
C15_WithReversalCountsNewTrend ==
    LET with_reversal(g, t) ==
            (TrendSessions(t) # {} /\ has_key(stats.stats_reversal[g], Key("% with reversal*"))) =>
                FracEq(Reversal(g, "% with reversal*"),
                       Frac(100 * Cardinality(ReversalSessions(t)),
                            Cardinality(TrendSessions(t))))
    IN  reversal_ran =>
            /\ with_reversal("uptrend day", 1)
            /\ with_reversal("downtrend day", -1)
            /\ with_reversal("range day", 0)

-----------------------------------------------------------------------------
(* Determinism of the analyses, under SpecTwice *)

-----------------------------------------------------------------------------
(* Dependence between the statistic groups, under SpecAnyOrder *)

Analyses == {"analyze_reversal", "analyze_pivot_points", "analyze_range", "analyze_no_rebound"}

\* the dictionaries an analysis method assigns
Written(m) ==
    CASE m = "analyze_reversal" -> {"stats_reversal", "stats_hour_reversal", "range_then_reversal"}
      [] m = "analyze_pivot_points" -> {"stats_pivot_points", "stats_deep_rebound", "stats_no_rebound"}
      [] m = "analyze_range" -> {"stats_range_range", "stats_range_uptrend", "stats_range_downtrend"}
      [] m = "analyze_no_rebound" -> {"time_stats_no_rebound", "body_stats_no_rebound"}

\* what method m leaves when it is called on the loaded table with the fields a
\* and empty dictionaries
From(m, a) == RunStatements(a, stats_init, StatementsOf(m, es_price_df, a))

\* what m leaves when it is the first analysis called after the load, and what
\* it leaves when only the reversal analysis was called before it
Alone(m) == From(m, Loaded(es_price_df))
AfterReversal(m) == From(m, Alone("analyze_reversal").attrs)

\* this step is the call of m
Calls(m) == calls' = Append(calls, m)

\* the call of m leaves in its dictionaries what the run o leaves in them, ends
\* as o ends and leaves the other dictionaries alone
LeavesWhat(m, o) ==
    /\ \A d \in Written(m) : stats'[d] = o.stats[d]
    /\ \A d \in DOMAIN stats \ Written(m) : stats'[d] = stats[d]
    /\ (pc' = "raised") = (o.exc # "none")
    /\ pc' = "raised" => error'.exc = o.exc

-----------------------------------------------------------------------------
(* Order of the stages and failures, under Spec *)

\* the stages in the order of run()
RunOrder ==
    << "query_data", "analyze_reversal", "analyze_pivot_points", "analyze_range",
       "analyze_no_rebound", "write_html" >>

\* C18: in every run the stages execute strictly in the order load, reversal,
\* pivot points, range, no-rebound, render, each at most once: no statistic is
\* computed before the table is loaded, the report file is not opened before
\* every analysis stage has completed, and no stage is entered again.
C18_StagesInOrder ==
    /\ Len(calls) <= Len(RunOrder)
    /\ calls = SubSeq(RunOrder, 1, Len(calls))
    /\ "query_data" \notin Range(calls) => (stats = stats_init /\ frame = NoFrame)
    /\ report.opened =>
          /\ calls = RunOrder
          /\ \A m \in Analyses : completed(m)
    /\ pc \in Range(RunOrder) => RunOrder[Len(calls) + 1] = pc

\* a run went through the six stages in order and wrote the report
C18_Witness ==
    /\ pc = "done"
    /\ calls = RunOrder
    /\ report.opened
    /\ report.written = html_report(stats)
    /\ stats # stats_init

\* a stage of the run has failed
Failed == error.exc # "none"

\* C19: a failure at any stage (load, an analysis stage, render) aborts the
\* run: no step is taken once a stage has failed, so no later stage executes
\* and nothing is retried; the failing stage is the last one called, the
\* success message is not printed and the run ends with exit code 1.
C19_FailFast ==
    [][ /\ ~Failed
        /\ Failed' =>
              /\ pc' \in {"raised", "exit"}
              /\ error'.code = 1
              /\ error'.stage = RunOrder[Len(calls')]
              /\ calls' = SubSeq(RunOrder, 1, Len(calls'))
              /\ "Report written in: " \notin Range(stdout') ]_vars

\* the pivot-point analysis raised after the reversal analysis had completed:
\* the run stopped there with part of the statistics assigned
C19_Witness ==
    /\ pc = "raised"
    /\ error.stage = "analyze_pivot_points"
    /\ calls = SubSeq(RunOrder, 1, 3)
    /\ stats.stats_pivot_points["General"] # EmptyDict
    /\ stats.stats_range_range["Range"] = EmptyDict
    /\ ~report.opened

\* C20: when the render stage fails after the report file has been opened, no
\* partial report is left: the file does not end up holding only the tables
\* written before the failure.
C20_NoPartialReport ==
    (Failed /\ error.stage = "write_html" /\ report.opened) =>
        ~( /\ Len(report.written) >= 1
           /\ Len(report.written) < Len(html_report(stats))
           /\ report.written = SubSeq(html_report(stats), 1, Len(report.written)) )

-----------------------------------------------------------------------------
(* run() on a sheet that lacks a column *)

\* the columns of the sheet that the analyses read
Columns == DOMAIN RowKinds[1]

\* the sheet t saved without column c
without(t, c) == [j \in DOMAIN t |-> [f \in Columns \ {c} |-> t[j][f]]]

\* whether the table read has the column (a table with rows shows its columns)
has_column(df, c) == df = <<>> \/ c \in DOMAIN df[1]

\* a method whose first statement subscripts the table with column c: the
\* subscript raises KeyError when the table has no such column
subscript(df, c, sts) ==
    IF has_column(df, c) THEN sts ELSE << Local("self.__es_price_df[...]", Raise("KeyError")) >>

\* the sheets lacking 'Hour trend change', the column of the first statement of
\* __analyze_reversal, or KEY_FIRST_REBOUND, the column of the first statement
\* of __analyze_pivot_points
Sheets ==
    {without(t, c) : t \in PlainTables \ {<<>>}, c \in {"hour_trend_change", "first_rebound"}}

\* query_data: pd.read_excel returns the sheet as it is, whatever its columns
query_data_sheet == Load(Sheets)

analyze_reversal_sheet ==
    Stage("analyze_reversal",
          subscript(es_price_df, "hour_trend_change",
                    analyze_reversal_statements(es_price_df, attrs)),
          "analyze_pivot_points")

analyze_pivot_points_sheet ==
    Stage("analyze_pivot_points",
          subscript(es_price_df, "first_rebound", analyze_pivot_points_statements(es_price_df)),
          "analyze_range")

NextSheet ==
    \/ query_data_sheet
    \/ analyze_reversal_sheet
    \/ analyze_pivot_points_sheet

SpecSheet == Init /\ [][NextSheet]_vars

\* the sheet read lacks a column
lacks_column == es_price_df # <<>> /\ DOMAIN es_price_df[1] # Columns

\* C21: a sheet that lacks a required column is rejected by the load stage: the
\* run ends through the load-failure path (message and exit code 1 of
\* query_data) and no analysis stage starts on it.
C21_MissingColumnRejectedAtLoad ==
    lacks_column =>
        /\ pc = "exit"
        /\ error = [exc |-> "SystemExit", code |-> 1, stage |-> "query_data"]
        /\ Range(calls) \cap Analyses = {}

-----------------------------------------------------------------------------
(* run() on a sheet of regular sessions *)

\* query_data: pd.read_excel returns a sheet of regular sessions
query_data_plain == Load(PlainTables)

NextPlain ==
    \/ query_data_plain
    \/ query_data_fails
    \/ analyze_reversal
    \/ analyze_pivot_points
    \/ analyze_range
    \/ analyze_no_rebound
    \/ write_html
    \/ write_html_open_fails
    \/ write_html_write_fails

SpecPlain == Init /\ [][NextPlain]_vars

\* the statements that run when analysis method m is called in this state, and
\* among them the assignments to keys of the statistics dictionaries
Ran(m) ==
    LET sts == StatementsOf(m, es_price_df, attrs)
    IN  SubSeq(sts, 1, FirstRaise(sts) - 1)

Assigned(m) == SelectSeq(Ran(m), LAMBDA st : st.to = "stats")

\* key k of group g of dictionary d holds a value computed by a stage (the
\* keys of range_then_reversal are there from __init__, all with 0)
computed(d, g, k) ==
    /\ has_key(stats[d][g], k)
    /\ ~(d = "range_then_reversal" /\ get(stats[d][g], k) = IntV(0))

\* C22: the statistics are write-once per run: a stage assigns each key at most
\* once and assigns no key that holds a value computed before, every step of
\* the run leaves the computed values as they are, and the render leaves
\* every dictionary unchanged.
C22_WriteOnce ==
    [][ /\ \A m \in Analyses : pc = m =>
              LET as == Assigned(m)
              IN  /\ \A i, j \in DOMAIN as :
                        (as[i].d = as[j].d /\ as[i].g = as[j].g /\ as[i].key = as[j].key)
                            => i = j
                  /\ \A i \in DOMAIN as : ~computed(as[i].d, as[i].g, as[i].key)
        /\ \A d \in DOMAIN stats : \A g \in DOMAIN stats[d] : \A j \in DOMAIN stats[d][g] :
              LET k == stats[d][g][j][1]
              IN  computed(d, g, k) =>
                    /\ has_key(stats'[d][g], k)
                    /\ get(stats'[d][g], k) = get(stats[d][g], k)
        /\ pc = "write_html" => stats' = stats
      ]_vars

\* the four stages have assigned their dictionaries and the report is written
C22_Witness ==
    /\ pc = "done"
    /\ Analyses \subseteq Range(calls)
    /\ \A d \in DOMAIN stats : \A g \in DOMAIN stats[d] :
          /\ stats[d][g] # EmptyDict
          /\ \A j \in DOMAIN stats[d][g] : computed(d, g, stats[d][g][j][1])
    /\ report.written = html_report(stats)

-----------------------------------------------------------------------------
(* run() on sheets where every stage has its sessions *)

MaxExtra == 2

\* the session with a candle of size zero at the level it touched
zero_candle(r) == [r EXCEPT !.body_candle = 0]

\* The other sessions of these sheets: sessions 7, 8, 9 and 10 of RowKinds
\* (here 1, 2, 3 and 6) and
\* 4: a quiet range day whose only level touch is a perfect rebound at S
\*    entered in the second-rebound column
\* 5: a quiet range day whose only level touch is a perfect rebound at R
\*    entered in the first-rebound column
LevelKinds ==
    << RowKinds[7], RowKinds[8], RowKinds[9],
       Row(0, NaN, NaN, Pt(4), 1,
           NaN, Some("S"), NaN, NaN, NaN, 0),
       Row(0, NaN, NaN, Pt(5), 0,
           Some("R"), NaN, NaN, NaN, NaN, 0),
       RowKinds[10] >>

RECURSIVE LevelSeqs(_, _)
\* the non-decreasing sequences of n of these sessions, each at least k
LevelSeqs(n, k) ==
    IF n = 0 THEN {<<>>}
    ELSE UNION {{<<h>> \o t : t \in LevelSeqs(n - 1, h)} : h \in k..Len(LevelKinds)}

\* The sheets: the six regular sessions, on which every stage of run()
\* completes, the failed rebounds among them (sessions 3, 5 and 6) with a
\* candle of their own size or of size zero, and up to MaxExtra other sessions
LevelTables ==
    { [j \in 1..6 |-> IF j \in Z THEN zero_candle(RowKinds[j]) ELSE RowKinds[j]]
        \o [j \in DOMAIN ks |-> LevelKinds[ks[j]]] :
      Z \in SUBSET {3, 5, 6}, ks \in UNION {LevelSeqs(n, 1) : n \in 0..MaxExtra} }

\* query_data: pd.read_excel returns one of these sheets
query_data_levels == Load(LevelTables)

NextLevels ==
    \/ query_data_levels
    \/ analyze_reversal
    \/ analyze_pivot_points
    \/ analyze_range
    \/ analyze_no_rebound
    \/ write_html
    \/ write_html_open_fails
    \/ write_html_write_fails

SpecLevels == Init /\ [][NextLevels]_vars

\* the sessions with a level touch of some kind: a perfect rebound in the first
\* or in the second rebound column, a deep rebound, a failed rebound
FirstSessions == {i \in Sessions : iloc(es_price_df, i).first_rebound # NaN}
SecondSessions == {i \in Sessions : iloc(es_price_df, i).second_rebound # NaN}
FailedSessions == NoPerfectSessions \ DeepSessions
TouchSessions == FirstSessions \cup SecondSessions \cup DeepSessions \cup FailedSessions

\* the day sets of the rollup, as the pivot-point analysis left them
Days(name) == Elems(local(name).list)

\* C23: every session with a Demark-level touch of any kind (first rebound,
\* second rebound, deep rebound, failed rebound) is among the days with
\* demark, and every session with a perfect rebound in either column is among
\* the days with rebound.
C23_EveryTouchIsDemarkDay ==
    (pivot_ran /\ has_local("days_with_demark")) =>
        /\ TouchSessions \subseteq Days("days_with_demark")
        /\ FirstSessions \cup SecondSessions \subseteq Days("days_with_rebound")

-----------------------------------------------------------------------------
(* Properties of the level breakdowns, under SpecLevels *)

no_rebound_ran == frame.method = "analyze_no_rebound"

Pivots(group, key) == get(stats.stats_pivot_points[group], Key(key))

\* the no-rebound cohort of __analyze_no_rebound and its part at one level
Cohort == local("no_rebounds_df").list
CohortAt(word) == local("no_rebounds_" \o word \o "_df").list

\* the share of the failed rebounds that the cohort's part at a level makes
ShareAt(word) == Frac(100 * Len(CohortAt(word)), Len(Cohort))

\* C24: the cohort of the no-rebound breakdown is the failed-rebound set the
\* pivot-point classifier counted (a level without perfect rebound and no
\* deep-rebound distance), and its split by level gives the classifier's
\* per-level counts of failed rebounds.
C24_SameFailedCohort ==
    (no_rebound_ran /\ completed("analyze_pivot_points")) =>
        /\ Elems(Cohort) = FailedSessions
        /\ IntV(Len(Cohort)) = General("count no rebound")
        /\ FracEq(Pivots("Pivot", "pct pivot no rebound"), ShareAt("pivot"))
        /\ FracEq(Pivots("Support", "pct support no rebound"), ShareAt("support"))
        /\ FracEq(Pivots("Resistance", "pct resistance no rebound"), ShareAt("resistance"))
        /\ FracEq(get(stats.stats_no_rebound["Point"], Key("% pivot")), ShareAt("pivot"))
        /\ FracEq(get(stats.stats_no_rebound["Point"], Key("% support")), ShareAt("support"))
        /\ FracEq(get(stats.stats_no_rebound["Point"], Key("% resistance")), ShareAt("resistance"))

\* the breakdown ran on a table with deep rebounds left out of the cohort and
\* with failed rebounds at each level, more of them at PP than at R
C24_Witness ==
    /\ no_rebound_ran
    /\ completed("analyze_pivot_points")
    /\ NoPerfectSessions \cap DeepSessions # {}
    /\ Len(CohortAt("resistance")) > 0
    /\ Len(CohortAt("support")) > 0
    /\ Len(CohortAt("pivot")) > Len(CohortAt("resistance"))

\* the candle sizes of the failed rebounds at a level, and those above zero
\* as __calc_cpf receives them (whole points)
CandlesAt(word) == Column(es_price_df, CohortAt(word), "body_candle")
BodiesAt(word) ==
    LET above == SelectSeq(CandlesAt(word), LAMBDA b : b > 0)
    IN  [j \in DOMAIN above |-> (above[j] \div TicksPerPoint) * TicksPerPoint]

\* the row of a level in the candle-body table
BodyRow(group) == stats.body_stats_no_rebound[group]

\* the row of a level holds, at each threshold of width 5 up to the largest
\* candle of the cohort, the share of the level's candles above zero that are
\* at or below the threshold
BodyRowLeavesOutZero(group, word) ==
    LET data == BodiesAt(word)
        xs == x_cpf(MaxSeq(Column(es_price_df, Cohort, "body_candle")) \div TicksPerPoint, 5)
    IN  \A j \in DOMAIN xs :
            /\ has_key(BodyRow(group), cpf_key("pt", xs[j]))
            /\ FracEq(get(BodyRow(group), cpf_key("pt", xs[j])),
                      Frac(100 * Cardinality({i \in DOMAIN data : data[i] <= xs[j] * TicksPerPoint}),
                           Len(data)))

\* C25: in the candle-body CPF of the no-rebound breakdown the candles of size
\* zero are left out of the numerator and the denominator of every percentage
\* of their level, the bins are 5 points wide, and the analysis does not abort
\* on a level whose failed rebounds all have candles of size zero.
C25_BodyCpfLeavesOutZeroCandles ==
    no_rebound_ran =>
        /\ completed("analyze_no_rebound")
        /\ BodyRowLeavesOutZero("Pivot", "pivot")
        /\ BodyRowLeavesOutZero("Support", "support")
        /\ BodyRowLeavesOutZero("Resistance", "resistance")

-----------------------------------------------------------------------------
(* The first threshold, under SpecCpf *)

\* C26 as stated: for bin width >= 1 and max edge >= 1 the first threshold of
\* __calc_cpf is the bin width, also when the max edge is below the bin width.
C26_FirstThresholdIsBinWidth ==
    (NumReturned /\ cpf_call.bin_max >= 1 /\ cpf_call.bin_span >= 1) =>
        cpf_ret.val.x[1] = cpf_call.bin_span

\* C26, amended: for bin width >= 1 and max edge >= 1 the first threshold of
\* __calc_cpf is the smaller of the bin width and the max edge: the bin width
\* when the max edge is at least the bin width, and the max edge, which is
\* then the only threshold, when the max edge is below the bin width.
C26_FirstThresholdIsSmallerOfBoth ==
    (NumReturned /\ cpf_call.bin_max >= 1 /\ cpf_call.bin_span >= 1) =>
        LET xs == cpf_ret.val.x
        IN  /\ cpf_call.bin_max >= cpf_call.bin_span => xs[1] = cpf_call.bin_span
            /\ cpf_call.bin_max < cpf_call.bin_span => xs = <<cpf_call.bin_max>>

\* a call with the max edge below the bin width has returned
C26_Witness ==
    /\ NumReturned
    /\ cpf_call.bin_max >= 1
    /\ cpf_call.bin_max < cpf_call.bin_span
    /\ cpf_ret.val.x = <<cpf_call.bin_max>>

-----------------------------------------------------------------------------
(* The rows of the CPF tables, under SpecLevels *)

\* the CPF tables: the dictionary of each and the stage that assigns it
CpfTables ==
    { <<"stats_hour_reversal", "analyze_reversal">>,
      <<"stats_deep_rebound", "analyze_pivot_points">>,
      <<"stats_range_range", "analyze_range">>,
      <<"stats_range_uptrend", "analyze_range">>,
      <<"stats_range_downtrend", "analyze_range">>,
      <<"time_stats_no_rebound", "analyze_no_rebound">>,
      <<"body_stats_no_rebound", "analyze_no_rebound">> }

\* the CPFs a stage holds in its locals, one set of names per table
CpfLocals ==
    { {"cdf_deep_rebound", "cdf_deep_rebound_pivot", "cdf_deep_rebound_support",
       "cdf_deep_rebound_resistance"},
      {"range_cpf", "range_es_lower_pp_cpf", "range_es_higher_pp_cpf"},
      {"uptrend_cpf", "uptrend_es_lower_pp_cpf", "uptrend_es_higher_pp_cpf"},
      {"downtrend_cpf", "downtrend_es_lower_pp_cpf", "downtrend_es_higher_pp_cpf"},
      {"cpf_hour_no_rebound_pivot", "cpf_hour_no_rebound_support",
       "cpf_hour_no_rebound_resistance"},
      {"cpf_body_no_rebound_pivot", "cpf_body_no_rebound_support",
       "cpf_body_no_rebound_resistance"} }

\* the keys of a row, in order
KeysOf(row) == [j \in DOMAIN row |-> row[j][1]]

\* C27: within each CPF table every row is computed against the same threshold
\* sequence: the CPFs of a table have the same thresholds and as many values
\* as thresholds, so indexing one by the positions of another stays within
\* the list, and the rows of a table a stage has completed have the same keys
\* in the same order.
C27_RowsShareThresholds ==
    /\ \A T \in CpfLocals : \A a, b \in T :
          (has_local(a) /\ has_local(b)) =>
              /\ local(a).x = local(b).x
              /\ Len(local(a).cpf) = Len(local(b).x)
    /\ \A t \in CpfTables : completed(t[2]) =>
          \A g, h \in DOMAIN stats[t[1]] :
              KeysOf(stats[t[1]][g]) = KeysOf(stats[t[1]][h])
    /\ error.exc # "IndexError"

\* the run has completed with several thresholds in the deep-rebound table,
\* whose rows for PP and S differ
C27_Witness ==
    /\ pc = "done"
    /\ Len(stats.stats_deep_rebound["General"]) >= 5
    /\ Len(stats.body_stats_no_rebound["Pivot"]) >= 3
    /\ \E j \in DOMAIN stats.stats_deep_rebound["Pivot"] :
          /\ j > 3
          /\ stats.stats_deep_rebound["Pivot"][j][2] # stats.stats_deep_rebound["Support"][j][2]

-----------------------------------------------------------------------------
(* The day-level rollup, under SpecLevels *)

Demark(key) == get(stats.stats_pivot_points["Days with demark"], Key(key))

\* the rollup has been assigned in full
rollup_assigned ==
    pivot_ran /\ has_key(stats.stats_pivot_points["Days with demark"], Key("with deep rebound"))

\* the percentages of the rollup
DayPercentages ==
    { "with rebound", "only rebound", "only perfect rebound", "only deep rebound",
      "only no rebound", "with no rebound", "with perfect rebound", "with deep rebound" }

\* C28: in the day-level rollup of a table with at least one Demark day, the
\* days with only a perfect rebound, only a deep rebound and only no rebound
\* are pairwise disjoint subsets of the Demark days; the days with only a
\* rebound and the days with no rebound partition the Demark days, so their
\* percentages add up to 100; and every day-level percentage is in 0..100.
C28_DayRollup ==
    rollup_assigned =>
        LET demark == Days("days_with_demark")
            only_rebound == Days("demark_days_with_rebound_only")
            only_perfect == Days("demark_days_with_perfect_rebound_only")
            only_deep == Days("demark_days_with_deep_rebound_only")
            only_no == Days("demark_days_with_no_rebound_only")
            with_no == Days("rows_no_rebound")
            a == Demark("only rebound")
            b == Demark("with no rebound")
        IN  /\ Demark("count") = IntV(Cardinality(demark))
            /\ Cardinality(demark) >= 1
            /\ only_perfect \cap only_deep = {}
            /\ only_perfect \cap only_no = {}
            /\ only_deep \cap only_no = {}
            /\ only_perfect \cup only_deep \cup only_no \subseteq demark
            /\ only_rebound \cap with_no = {}
            /\ only_rebound \cup with_no = demark
            /\ FracEq(a, Frac(100 * Cardinality(only_rebound), Cardinality(demark)))
            /\ FracEq(b, Frac(100 * Cardinality(with_no), Cardinality(demark)))
            /\ FracEq(Demark("only perfect rebound"),
                      Frac(100 * Cardinality(only_perfect), Cardinality(demark)))
            /\ FracEq(Demark("only deep rebound"),
                      Frac(100 * Cardinality(only_deep), Cardinality(demark)))
            /\ FracEq(Demark("only no rebound"),
                      Frac(100 * Cardinality(only_no), Cardinality(demark)))
            /\ FracEq(Frac(a.n * b.d + b.n * a.d, a.d * b.d), Hundred)
            /\ \A k \in DayPercentages :
                  FracLe(Zero, Demark(k)) /\ FracLe(Demark(k), Hundred)

\* the rollup of a table with a day in each of the three 'only' sets and a
\* day with both a perfect rebound and a failed one
C28_Witness ==
    /\ rollup_assigned
    /\ Days("demark_days_with_perfect_rebound_only") # {}
    /\ Days("demark_days_with_deep_rebound_only") # {}
    /\ Days("demark_days_with_no_rebound_only") # {}
    /\ FirstSessions \cap FailedSessions # {}

-----------------------------------------------------------------------------
(* The two reversal cohorts of a trend class, under SpecLevels *)

\* the rows `rows` of the table, in row order
RowsIn(rows) == SelectSeq(all_rows(es_price_df), LAMBDA i : i \in rows)

\* every session of class t has both an hour of trend change and a new trend,
\* or neither
RegularClass(t) ==
    \A i \in TrendSessions(t) :
        (iloc(es_price_df, i).hour_trend_change = NaN) = (iloc(es_price_df, i).new_trend = NaN)

\* for class t, with its field of reversed sessions and its group g: the
\* cohort the engine selects by hour is the class's sessions with an hour, the
\* average range 'when reversal' is taken over the class's sessions with a new
\* trend, and on a regular class it is the average over the cohort selected
\* by hour
TwoCohorts(t, field, g) ==
    LET by_hour == attrs[field]
        avg == Key("avg. range when reversal [pt]")
    IN  is_dataframe(by_hour) =>
            /\ Elems(by_hour.list) = ThenReversal(t)
            /\ has_key(stats.stats_reversal[g], avg) =>
                  /\ get(stats.stats_reversal[g], avg)
                        = np_mean(Column(es_price_df, RowsIn(ReversalSessions(t)), "max_range"))
                  /\ RegularClass(t) =>
                        get(stats.stats_reversal[g], avg)
                            = np_mean(Column(es_price_df, by_hour.list, "max_range"))

\* C29: the reversal analysis selects the reversed sessions of a trend class
\* once by a non-null hour of trend change and once by a non-null new trend.
\* When every session of the class has both or neither, the two cohorts are
\* the same sessions; when a session has an hour without a new trend the two
\* cohorts differ, and the analysis raises nothing on that account.
C29_TwoReversalCohorts ==
    reversal_ran =>
        /\ TwoCohorts(1, "es_uptrend_then_reversal_df", "uptrend day")
        /\ TwoCohorts(-1, "es_downtrend_then_reversal_df", "downtrend day")
        /\ TwoCohorts(0, "es_range_then_reversal_df", "range day")
        /\ \A t \in {1, -1, 0} : RegularClass(t) => ThenReversal(t) = ReversalSessions(t)
        /\ error.exc = "none"

\* the analysis completed on a table whose downtrend sessions are regular,
\* with the same non-empty cohort either way, and whose uptrend sessions are
\* not: the cohort by hour has a session more than the cohort by new trend
C29_Witness ==
    /\ reversal_ran
    /\ error.exc = "none"
    /\ RegularClass(-1)
    /\ ReversalSessions(-1) # {}
    /\ Elems(attrs.es_downtrend_then_reversal_df.list) = ReversalSessions(-1)
    /\ ~RegularClass(1)
    /\ ReversalSessions(1) # {}
    /\ Elems(attrs.es_uptrend_then_reversal_df.list) # ReversalSessions(1)
    /\ has_key(stats.stats_reversal["uptrend day"], Key("avg. range when reversal [pt]"))

-----------------------------------------------------------------------------
(* The last value of the whole-cohort CPFs, under SpecLevels *)

\* the whole-cohort numeric CPFs: the local that holds each and the local
\* that holds its observations
WholeCohortCpfs ==
    { <<"cdf_deep_rebound", "pt_deep_rebound">>,
      <<"range_cpf", "range_range_all_days">>,
      <<"uptrend_cpf", "range_uptrend_all_days">>,
      <<"downtrend_cpf", "range_downtrend_all_days">> }

\* the last element of a non-empty list
Last(l) == l[Len(l)]

\* C30: for every whole-cohort numeric CPF (the deep-rebound distances of all
\* levels; the max_range of all range, uptrend and downtrend days) the max
\* edge passed, the integer truncation of the cohort's largest observation, is
\* at least that observation, so the last cumulative percentage is 100, for
\* observations that are not whole points as well.
C30_WholeCohortCpfEndsAt100 ==
    \A c \in WholeCohortCpfs :
        (has_local(c[1]) /\ has_local(c[2])) =>
            /\ Last(local(c[1]).x) * TicksPerPoint >= MaxSeq(local(c[2]).list)
            /\ FracEq(Last(local(c[1]).cpf), Hundred)

=============================================================================
